---------------------------- MODULE Spec2Model ----------------------------
(***************************************************************************)
(* A model of the gherkin crate: the line-oriented parser                  *)
(* (gherkin/src/parser/mod.rs, parser/keyword.rs), the data table          *)
(* (gherkin/src/data_table.rs), the scenario-outline expander              *)
(* (gherkin/src/scenario_outline.rs), and the lexer with the token-based   *)
(* parser (gherkin/src/lex.rs, gherkin/src/parse.rs).                      *)
(*                                                                         *)
(* A text is the sequence of lines `str::lines()` yields; a line is a      *)
(* string, read character by character with SubSeq.  Option<T> is a        *)
(* sequence of length 0 (None) or 1 (Some).                                *)
(***************************************************************************)
EXTENDS Integers, Sequences, FiniteSets, TLC

VARIABLES
    text,       \* ParserInner.text: the input, as its lines
    tokens,     \* the tokens lex has pushed, then those the token parser
                \* has not consumed yet
    pc,         \* where match_feature, or lex and Parser::parse, stands
    cur,        \* ParserInner.current_line: the number of lines consumed;
                \* Lexer.current_line, then Parser.current_end_line
    feature,    \* the fields of the Feature built so far
    result,     \* what parse_feature returned: Ok, Err or a panic
    outline,    \* the ScenarioOutline scenarios() is called on
    outline0,   \* that outline as it was constructed
    iter,       \* the iterator scenarios() returned: block and row position
    yielded,    \* the scenarios the running iterator has yielded
    previous,   \* the scenarios the previous, exhausted iterator yielded
    calls,      \* how many times scenarios() was called
    data_table, \* the DataTable the constructors and add_row work on
    call        \* the last call of a constructor, of add_row or of
                \* Keyword::parse, or a panic in next()

vars == <<text, tokens, pc, cur, feature, result, outline, outline0, iter,
          yielded, previous, calls, data_table, call>>

-----------------------------------------------------------------------------
(* Strings: the std operations the parser uses.                            *)

None == <<>>
Some(x) == <<x>>

\* A value bound to a name: With(e, LAMBDA x : f(x)) is f(e), with e
\* evaluated once
With(x, K(_)) == CHOOSE r \in {K(v) : v \in {x}} : TRUE

Ch(s, i) == SubSeq(s, i, i)

\* char::is_ascii_whitespace / the White_Space characters of str::trim
IsWhitespace(c) == c \in {" ", "\t", "\n", "\r", "\f"}

StartsWith(s, p) == Len(p) <= Len(s) /\ SubSeq(s, 1, Len(p)) = p

EndsWith(s, p) ==
    Len(p) <= Len(s) /\ SubSeq(s, Len(s) - Len(p) + 1, Len(s)) = p

\* &s[n..]
From(s, n) == SubSeq(s, n + 1, Len(s))

RECURSIVE TrimStart(_)
TrimStart(s) ==
    IF Len(s) > 0 /\ IsWhitespace(Ch(s, 1)) THEN TrimStart(From(s, 1)) ELSE s

RECURSIVE TrimEnd(_)
TrimEnd(s) ==
    IF Len(s) > 0 /\ IsWhitespace(Ch(s, Len(s)))
    THEN TrimEnd(SubSeq(s, 1, Len(s) - 1))
    ELSE s

Trim(s) == TrimEnd(TrimStart(s))

\* chars().take_while(|c| c.is_ascii_whitespace()).collect()
LeadingWhitespace(s) == SubSeq(s, 1, Len(s) - Len(TrimStart(s)))

\* u8::to_ascii_lowercase on the letters A..Z, by the letter
LowerOf ==
    [A |-> "a", B |-> "b", C |-> "c", D |-> "d", E |-> "e", F |-> "f",
     G |-> "g", H |-> "h", I |-> "i", J |-> "j", K |-> "k", L |-> "l",
     M |-> "m", N |-> "n", O |-> "o", P |-> "p", Q |-> "q", R |-> "r",
     S |-> "s", T |-> "t", U |-> "u", V |-> "v", W |-> "w", X |-> "x",
     Y |-> "y", Z |-> "z"]

LowerChar(c) == IF c \in DOMAIN LowerOf THEN LowerOf[c] ELSE c

RECURSIVE ToAsciiLowercase(_)
ToAsciiLowercase(s) ==
    IF Len(s) = 0 THEN ""
    ELSE LowerChar(Ch(s, 1)) \o ToAsciiLowercase(From(s, 1))

\* str::find(char): the 1-based place of the first sep from place i on, 0 if
\* there is none
RECURSIVE Find(_, _, _)
Find(s, sep, i) ==
    IF i > Len(s) THEN 0 ELSE IF Ch(s, i) = sep THEN i ELSE Find(s, sep, i + 1)

\* str::split(char): the pieces between the separators, empty ones included
RECURSIVE Split(_, _)
Split(s, sep) ==
    With(Find(s, sep, 1), LAMBDA at :
        IF at = 0 THEN <<s>>
        ELSE <<SubSeq(s, 1, at - 1)>> \o Split(From(s, at), sep))

\* str::replace(from, to): every non-overlapping match, left to right
RECURSIVE Replace(_, _, _)
Replace(s, from, to) ==
    IF Len(s) < Len(from) \/ Len(from) = 0 THEN s
    ELSE IF StartsWith(s, from)
         THEN to \o Replace(From(s, Len(from)), from, to)
         ELSE Ch(s, 1) \o Replace(From(s, 1), from, to)

-----------------------------------------------------------------------------
(* parser/keyword.rs                                                       *)

SectionKeywords == {"Feature", "Scenario", "Background", "ScenarioOutline",
                    "Scenarios"}
StepKeywords == {"Given", "When", "Then", "And", "But", "Asterisk"}

\* has_colon answering no for every keyword
HasColonNever(keyword) == FALSE

has_colon(keyword) == keyword \in SectionKeywords

\* The table with the short spellings before the long ones they begin
CombinationsShortFirst ==
    << <<"Scenario", "example">>,
       <<"Scenario", "scenario">>,
       <<"Scenarios", "examples">>,
       <<"Scenarios", "scenarios">>,
       <<"ScenarioOutline", "scenario outline">>,
       <<"ScenarioOutline", "scenario template">>,
       <<"Feature", "feature">>,
       <<"Background", "background">>,
       <<"Given", "given">>,
       <<"When", "when">>,
       <<"Then", "then">>,
       <<"And", "and">>,
       <<"But", "but">>,
       <<"Asterisk", "*">> >>

combinations ==
    << <<"Scenarios", "examples">>,
       <<"Scenarios", "scenarios">>,
       <<"ScenarioOutline", "scenario outline">>,
       <<"ScenarioOutline", "scenario template">>,
       <<"Feature", "feature">>,
       <<"Scenario", "example">>,
       <<"Scenario", "scenario">>,
       <<"Background", "background">>,
       <<"Given", "given">>,
       <<"When", "when">>,
       <<"Then", "then">>,
       <<"And", "and">>,
       <<"But", "but">>,
       <<"Asterisk", "*">> >>

\* combinations().iter().find(|(_, pattern)| lowercase.starts_with(pattern)):
\* the index of the first entry from i on whose spelling begins the line, 0 if
\* there is none
RECURSIVE FindCombination(_, _)
FindCombination(lowercase, i) ==
    IF i > Len(combinations) THEN 0
    ELSE IF StartsWith(lowercase, combinations[i][2]) THEN i
    ELSE FindCombination(lowercase, i + 1)

\* Keyword::parse once the keyword is known to sit well with its colon:
\* leftover is the rest of the line after the keyword, its colon and the
\* whitespace that follows
ParsedKeyword(keyword, keyword_name, leftover, strip_trailing_colon) ==
    With(EndsWith(TrimEnd(leftover), ":"), LAMBDA last_is_colon :
        Some([keyword |-> keyword,
              keyword_name |-> keyword_name,
              leftover |-> IF last_is_colon /\ strip_trailing_colon
                           THEN SubSeq(leftover, 1, Len(leftover) - 1)
                           ELSE leftover,
              last_is_colon |-> last_is_colon]))

\* Keyword::parse from the entry found: the colon must be there exactly when
\* the keyword has one
ParseFound(line, entry, strip_trailing_colon) ==
    With(From(line, Len(entry[2])), LAMBDA after :
        IF has_colon(entry[1]) # StartsWith(after, ":") THEN None
        ELSE ParsedKeyword(entry[1], SubSeq(line, 1, Len(entry[2])),
                IF has_colon(entry[1]) THEN TrimStart(From(after, 1))
                ELSE TrimStart(after),
                strip_trailing_colon))

\* Keyword::parse: None, or Some of the keyword, its spelling on the line,
\* the rest of the line and whether the rest ends with a colon
KeywordParse(line, strip_trailing_colon) ==
    With(FindCombination(ToAsciiLowercase(line), 1), LAMBDA found :
        IF found = 0 THEN None
        ELSE ParseFound(line, combinations[found], strip_trailing_colon))

-----------------------------------------------------------------------------
(* data_table.rs                                                           *)

\* DataTable::new
DataTableNew(header) == [header |-> header, rows |-> <<>>]

\* add_row without the test of the row's length
AddRowUnchecked(table, row) ==
    [ok |-> TRUE, table |-> [table EXCEPT !.rows = Append(@, row)]]

\* DataTable::add_row: Ok with the table grown, or Err with the table as it was
add_row(table, row) ==
    IF Len(row) = Len(table.header)
    THEN [ok |-> TRUE, table |-> [table EXCEPT !.rows = Append(@, row)]]
    ELSE [ok |-> FALSE, table |-> table]

\* The rows among `rows` from row i on that have n cells
RECURSIVE FittingRows(_, _, _)
FittingRows(rows, n, i) ==
    IF i > Len(rows) THEN <<>>
    ELSE (IF Len(rows[i]) = n THEN <<rows[i]>> ELSE <<>>)
         \o FittingRows(rows, n, i + 1)

\* new_populated keeping the rows that fit instead of failing
NewPopulatedKeepingFitting(header, rows) ==
    Some([header |-> header, rows |-> FittingRows(rows, Len(header), 1)])

\* DataTable::new_populated
new_populated(header, rows) ==
    IF \E i \in 1..Len(rows) : Len(rows[i]) # Len(header) THEN None
    ELSE Some([header |-> header, rows |-> rows])

-----------------------------------------------------------------------------
(* scenario_outline.rs: TaggedScenarios                                    *)

\* DataTable::header and DataTable::rows
header_of(table) == table.header
rows_of(table) == table.rows

\* TaggedScenarios::new without the test of the rows' lengths
TaggedScenariosNewUnchecked(tags, placeholders, values) ==
    Some([tags |-> tags, placeholders |-> placeholders, values |-> values])

\* TaggedScenarios::new
TaggedScenariosNew(tags, placeholders, values) ==
    IF \A i \in 1..Len(values) : Len(values[i]) = Len(placeholders)
    THEN Some([tags |-> tags, placeholders |-> placeholders, values |-> values])
    ELSE None

\* TaggedScenarios::len
TaggedScenariosLen(s) == Len(s.values)

-----------------------------------------------------------------------------
(* parser/mod.rs: ParserInner.  Every function takes the line cursor       *)
(* (current_line, which is also the number of lines taken from `lines`)    *)
(* and returns a record with the cursor it leaves behind:                  *)
(*   [tag |-> "Ok", cur, val]                                              *)
(*   [tag |-> "Err", cur, msg, quoted, seen]   Err(String)                 *)
(*   [tag |-> "Panic", cur, msg, seen]         unwrap() on None            *)
(* `quoted` is the line format_error puts between `-->` and `<--`; `seen`  *)
(* is the index of the line whose examination raised the error (Len(text)  *)
(* when it was the end of the input), kept for the properties only.        *)

Ok(c, v) == [tag |-> "Ok", cur |-> c, val |-> v]

\* The `?` operator: an Err (or a panic) is returned as it is, an Ok goes on
Try(r, K(_)) == IF r.tag # "Ok" THEN r ELSE K(r)

\* format_error: text.lines().skip(line_number).next().unwrap()
format_error(message, line_number, c, seen) ==
    IF line_number < Len(text)
    THEN [tag |-> "Err", cur |-> c, msg |-> message,
          quoted |-> Some(text[line_number + 1]), seen |-> seen]
    ELSE [tag |-> "Panic", cur |-> c, msg |-> message, seen |-> seen]

\* make_error: format_error at current_line
make_error(c, message, seen) == format_error(message, c, c, seen)

\* lines.peek()
Peek(c) == IF c < Len(text) THEN Some(text[c + 1]) ELSE None

IsEmptyOrComment(line) ==
    StartsWith(TrimStart(line), "#") \/ TrimEnd(TrimStart(line)) = ""

RECURSIVE take_empty_or_comment(_)
take_empty_or_comment(c) ==
    IF c < Len(text) /\ IsEmptyOrComment(text[c + 1])
    THEN take_empty_or_comment(c + 1)
    ELSE c

\* try_tags once the line is known to hold tags only: the line is taken, and
\* something must follow
TakeTags(c, pieces) ==
    With(take_empty_or_comment(c + 1), LAMBDA c2 :
        IF Peek(c2) = None
        THEN make_error(c2, "Standalone tags are not allowed", c2)
        ELSE Ok(c2, [i \in 1..Len(pieces) |-> From(Trim(pieces[i]), 1)]))

try_tags(c) ==
    IF Peek(c) = None THEN Ok(c, <<>>)
    ELSE IF ~StartsWith(Trim(text[c + 1]), "@") THEN Ok(c, <<>>)
    ELSE With(Split(Trim(text[c + 1]), " "), LAMBDA pieces :
        IF \E i \in 1..Len(pieces) : ~StartsWith(Trim(pieces[i]), "@")
        THEN make_error(c, "Invalid tag (does not start with '@')", c)
        ELSE TakeTags(c, pieces))

\* The (keyword, rest_of_str, has_trailing_colon) tuple of the two kw_line
\* functions
KwLine(p) == [keyword |-> p.keyword,
              rest |-> IF p.leftover = "" THEN None ELSE Some(p.leftover),
              colon |-> p.last_is_colon]

\* peek_kw_line after its take_empty_or_comment
PeekKwLineAt(c1, strip_colon) ==
    IF Peek(c1) = None THEN Ok(c1, None)
    ELSE With(KeywordParse(TrimStart(text[c1 + 1]), strip_colon), LAMBDA p :
        IF p # None THEN Ok(c1, Some(KwLine(p[1])))
        ELSE format_error("Unknown keyword", c1, c1, c1))

peek_kw_line(c, strip_colon) ==
    PeekKwLineAt(take_empty_or_comment(c), strip_colon)

match_kw_line(c, wanted, strip_colon) ==
    IF Peek(c) = None
    THEN make_error(c, "Expected keyword, got end of input", c)
    ELSE With(KeywordParse(TrimStart(text[c + 1]), strip_colon), LAMBDA p :
        IF p = None THEN make_error(c + 1, "Unknown keyword", c)
        ELSE IF p[1].keyword # wanted
        THEN make_error(c + 1, "Expected keyword, got another", c)
        ELSE Ok(c + 1, KwLine(p[1])))

\* Whether a peeked keyword line is there and holds the keyword
IsKw(kw, keyword) ==
    kw.tag = "Ok" /\ kw.val # None /\ kw.val[1].keyword = keyword

\* try_datatable's row_iter: the cells between the first and the last `|`
row_iter(row) ==
    With(Tail(Split(row, "|")), LAMBDA rest :
        [i \in 1..(Len(rest) - 1) |-> Trim(rest[i])])

IsTableLine(line) == StartsWith(Trim(line), "|") /\ EndsWith(Trim(line), "|")

\* try_datatable's loop over the rows
RECURSIVE DataTableRows(_, _)
DataTableRows(c, table) ==
    With(take_empty_or_comment(c), LAMBDA c1 :
        IF Peek(c1) # None /\ IsTableLine(text[c1 + 1])
        THEN With(add_row(table, row_iter(Trim(text[c1 + 1]))), LAMBDA added :
                IF ~added.ok
                THEN make_error(c1, "Invalid column count in datatable", c1)
                ELSE DataTableRows(c1 + 1, added.table))
        ELSE Ok(c1, Some(table)))

try_datatable(c) ==
    With(take_empty_or_comment(c), LAMBDA c1 :
        IF Peek(c1) = None THEN Ok(c1, None)
        ELSE IF ~IsTableLine(text[c1 + 1]) THEN Ok(c1, None)
        ELSE DataTableRows(c1 + 1, DataTableNew(row_iter(Trim(text[c1 + 1])))))

TripleQuote == "\"\"\""

\* try_docstring's loop over the lines after the opening delimiter
RECURSIVE DocStringLines(_, _, _)
DocStringLines(c, indent, string) ==
    IF Peek(c) = None THEN make_error(c, "Unterminated newline", c)
    ELSE IF Trim(text[c + 1]) = TripleQuote THEN Ok(c + 1, Some(Trim(string)))
    ELSE IF StartsWith(text[c + 1], indent)
    THEN DocStringLines(c + 1, indent,
                        string \o From(text[c + 1], Len(indent)) \o "\n")
    ELSE IF Trim(text[c + 1]) = ""
    THEN DocStringLines(c + 1, indent, string \o "\n")
    ELSE make_error(c + 1, "Inconsistent whitespace in docstring", c)

try_docstring(c) ==
    With(take_empty_or_comment(c), LAMBDA c1 :
        IF Peek(c1) = None THEN Ok(c1, None)
        ELSE IF Trim(text[c1 + 1]) = TripleQuote
        THEN DocStringLines(c1 + 1, LeadingWhitespace(text[c1 + 1]), "")
        ELSE Ok(c1, None))

\* try_freeform_text after its loop
FreeformEnd(c, string) ==
    Ok(c, IF TrimEnd(string) # "" THEN Some(TrimEnd(string)) ELSE None)

\* try_freeform_text's loop over the lines
RECURSIVE FreeformLines(_, _, _)
FreeformLines(c, indent, string) ==
    IF Peek(c) = None THEN FreeformEnd(c, string)
    ELSE IF Trim(text[c + 1]) = "" THEN FreeformLines(c + 1, indent, string)
    ELSE IF KeywordParse(Trim(text[c + 1]), FALSE) # None
    THEN FreeformEnd(c, string)
    ELSE IF indent # None
    THEN IF ~StartsWith(text[c + 1], indent[1])
         THEN make_error(c, "Inconsistent indentation in freeform text", c)
         ELSE FreeformLines(c + 1, indent,
                 string \o From(text[c + 1], Len(indent[1])) \o "\n")
    ELSE With(LeadingWhitespace(text[c + 1]), LAMBDA indent_value :
            FreeformLines(c + 1, Some(indent_value),
                string \o From(text[c + 1], Len(indent_value)) \o "\n"))

try_freeform_text(c) ==
    With(take_empty_or_comment(c), LAMBDA c1 :
        IF Peek(c1) = None THEN Ok(c1, None)
        ELSE FreeformLines(c1, None, ""))

\* Step::new
StepNew(ty, description, data) ==
    [ty |-> ty, description |-> description, data |-> data]

DocString(string) == [kind |-> "DocString", string |-> string]
DataTable(table) == [kind |-> "DataTable", table |-> table]

\* match_steps after its loop
StepsEnd(c, steps) ==
    IF steps = <<>> THEN make_error(c, "Must have at least 1 step", c)
    ELSE Ok(c, steps)

\* The data a step takes after its line: a data table, else a doc-string
StepDataAfter(c) ==
    Try(try_datatable(c), LAMBDA table :
        IF table.val # None
        THEN Ok(table.cur, Some(DataTable(table.val[1])))
        ELSE Try(try_docstring(table.cur), LAMBDA docstring :
                IF docstring.val # None
                THEN Ok(docstring.cur, Some(DocString(docstring.val[1])))
                ELSE Ok(docstring.cur, None)))

\* match_steps: one turn of its loop per recursion, next_kw the line peeked
RECURSIVE StepLoop(_, _)
StepTurn(next_kw, steps) ==
    IF next_kw.tag # "Ok"
    THEN IF steps = <<>>
         THEN make_error(next_kw.cur,
                 "Expected step keyword, but got invalid keyword line",
                 next_kw.cur)
         ELSE StepsEnd(next_kw.cur, steps)
    ELSE IF next_kw.val = None
    THEN IF steps = <<>>
         THEN make_error(next_kw.cur,
                 "Expected step keyword, but got end of input", next_kw.cur)
         ELSE StepsEnd(next_kw.cur, steps)
    ELSE IF next_kw.val[1].keyword \notin StepKeywords
    THEN StepsEnd(next_kw.cur, steps)
    ELSE IF next_kw.val[1].rest = None
    THEN make_error(next_kw.cur + 1, "step without description", next_kw.cur)
    ELSE Try(StepDataAfter(next_kw.cur + 1), LAMBDA step_data :
            StepLoop(step_data.cur,
                Append(steps, StepNew(next_kw.val[1].keyword,
                                      next_kw.val[1].rest[1], step_data.val))))

StepLoop(c, steps) == StepTurn(peek_kw_line(take_empty_or_comment(c), TRUE), steps)

match_steps(c, in_keyword) == StepLoop(c, <<>>)

\* try_background with the keyword line peeked
BackgroundAfter(kw) ==
    IF IsKw(kw, "Background") THEN match_steps(kw.cur + 1, "Background")
    ELSE Ok(kw.cur, <<>>)

try_background(c) == BackgroundAfter(peek_kw_line(c, TRUE))

\* try_scenario with its tags taken and the keyword line peeked
ScenarioAfter(tags, kw) ==
    IF ~IsKw(kw, "Scenario") THEN Ok(kw.cur, None)
    ELSE Try(try_freeform_text(kw.cur + 1), LAMBDA description :
         Try(match_steps(description.cur, "Scenario"), LAMBDA steps :
             Ok(steps.cur, Some([tags |-> tags,
                                 name |-> kw.val[1].rest,
                                 description |-> description.val,
                                 steps |-> steps.val]))))

try_scenario(c) ==
    Try(try_tags(c), LAMBDA tags :
        ScenarioAfter(tags.val,
                      peek_kw_line(take_empty_or_comment(tags.cur), FALSE)))

\* The set a Vec is collected into (HashSet<String>)
SetOf(seq) == {seq[i] : i \in 1..Len(seq)}

\* try_scenario_outline's loop over the Examples sections: one turn per
\* recursion
RECURSIVE ExamplesLoop(_, _, _)

\* The turn once the table of an Examples section is read: header_line is
\* where the table begins, c where it ends
ExamplesTable(c, header_line, tags, table, scenarios, first_placeholders) ==
    IF first_placeholders # None
       /\ \E i \in 1..Len(table.header) :
              table.header[i] \notin first_placeholders[1]
    THEN make_error(c,
            "Differing amount of or differently named placeholders in examples",
            header_line)
    ELSE With(TaggedScenariosNew(tags, table.header, table.rows), LAMBDA tagged :
            IF tagged = None
            THEN [tag |-> "Err", cur |-> c, msg |-> "", quoted |-> None,
                  seen |-> header_line]
            ELSE ExamplesLoop(c, Append(scenarios, tagged[1]),
                    IF first_placeholders # None THEN first_placeholders
                    ELSE Some(SetOf(table.header))))

\* The turn once the tags are taken and the keyword line is peeked
ExamplesAfter(tags, kw, scenarios, first_placeholders) ==
    IF ~IsKw(kw, "Scenarios")
    THEN IF scenarios # <<>> THEN Ok(kw.cur, scenarios)
         ELSE IF kw.tag # "Ok" THEN kw
         ELSE make_error(kw.cur,
                "Must have at least one Scenarios section in a Scenario Outline",
                kw.cur)
    ELSE With(take_empty_or_comment(kw.cur + 1), LAMBDA header_line :
         Try(try_datatable(header_line), LAMBDA table :
             IF table.val = None
             THEN make_error(table.cur,
                     "Expected data table to follow Examples", table.cur)
             ELSE ExamplesTable(table.cur, header_line, tags, table.val[1],
                                scenarios, first_placeholders)))

ExamplesLoop(c, scenarios, first_placeholders) ==
    Try(try_tags(take_empty_or_comment(c)), LAMBDA tags :
        ExamplesAfter(tags.val,
                      peek_kw_line(take_empty_or_comment(tags.cur), FALSE),
                      scenarios, first_placeholders))

\* try_scenario_outline with its tags taken and the keyword line peeked
ScenarioOutlineAfter(outline_tags, kw) ==
    IF ~IsKw(kw, "ScenarioOutline") THEN Ok(kw.cur, None)
    ELSE Try(try_freeform_text(kw.cur + 1), LAMBDA description :
         Try(match_steps(description.cur, "ScenarioOutline"), LAMBDA steps :
         Try(ExamplesLoop(steps.cur, <<>>, None), LAMBDA scenarios :
             Ok(scenarios.cur, Some([tags |-> outline_tags,
                                     name |-> kw.val[1].rest,
                                     description |-> description.val,
                                     steps |-> steps.val,
                                     scenarios |-> scenarios.val])))))

try_scenario_outline(c) ==
    Try(try_tags(c), LAMBDA outline_tags :
        ScenarioOutlineAfter(outline_tags.val,
            peek_kw_line(take_empty_or_comment(outline_tags.cur), FALSE)))

-----------------------------------------------------------------------------
(* parser/mod.rs: match_feature, one action per step of it.                *)

NoFeature == [tags |-> <<>>, name |-> None, description |-> None,
              background |-> <<>>, scenarios |-> <<>>,
              scenario_outlines |-> <<>>]

Running == [tag |-> "Running"]

\* No outline is expanded while a text is parsed
NoOutline == [tags |-> <<>>, name |-> None, description |-> None,
              steps |-> <<>>, scenarios |-> <<>>]

ExpanderIdle ==
    /\ outline = NoOutline
    /\ outline0 = NoOutline
    /\ iter = None
    /\ yielded = <<>>
    /\ previous = <<>>
    /\ calls = 0

ExpanderUnchanged == UNCHANGED <<outline, outline0, iter, yielded, previous, calls>>

\* No DataTable or TaggedScenarios is constructed
NoCall == [op |-> "none"]

ValuesIdle == data_table = None /\ call = NoCall

ValuesUnchanged == UNCHANGED <<data_table, call>>

\* `?` on an Err, and a panic: parse_feature ends with r
Return(r) ==
    /\ result' = r
    /\ pc' = "done"
    /\ cur' = r.cur
    /\ UNCHANGED <<text, tokens, feature>>
    /\ ExpanderUnchanged
    /\ ValuesUnchanged

\* ParserInner::new and the call of match_feature
ParseInit(input) ==
    /\ text = input
    /\ tokens = <<>>
    /\ pc = "tags"
    /\ cur = 0
    /\ feature = NoFeature
    /\ result = Running

\* A step of match_feature done: the field it set, the cursor it left and
\* where match_feature goes on
Goes(field, value, c, to) ==
    /\ feature' = [feature EXCEPT ![field] = value]
    /\ cur' = c
    /\ pc' = to
    /\ UNCHANGED <<text, tokens, result>>
    /\ ExpanderUnchanged
    /\ ValuesUnchanged

TagsTaken(feature_tags) ==
    IF feature_tags.tag # "Ok" THEN Return(feature_tags)
    ELSE Goes("tags", feature_tags.val,
              take_empty_or_comment(feature_tags.cur), "header")

\* take_empty_or_comment; try_tags()?; take_empty_or_comment
FeatureTags ==
    /\ pc = "tags"
    /\ TagsTaken(try_tags(take_empty_or_comment(cur)))

HeaderMatched(header) ==
    IF header.tag # "Ok" THEN Return(header)
    ELSE Goes("name", header.val.rest, header.cur, "description")

\* match_kw_line(Keyword::Feature, false)?
FeatureHeader ==
    /\ pc = "header"
    /\ HeaderMatched(match_kw_line(cur, "Feature", FALSE))

DescriptionRead(description) ==
    IF description.tag # "Ok" THEN Return(description)
    ELSE Goes("description", description.val,
              take_empty_or_comment(description.cur), "background")

\* try_freeform_text()?; take_empty_or_comment
FeatureDescription ==
    /\ pc = "description"
    /\ DescriptionRead(try_freeform_text(cur))

BackgroundRead(background) ==
    IF background.tag # "Ok" THEN Return(background)
    ELSE Goes("background", background.val, background.cur, "body")

\* try_background()?
FeatureBackground ==
    /\ pc = "background"
    /\ BackgroundRead(try_background(cur))

\* OutlineTried ending the loop whatever is left of the input
OutlineTriedLenient(scenario_outline) ==
    IF scenario_outline.tag # "Ok" THEN Return(scenario_outline)
    ELSE IF scenario_outline.val # None
    THEN Goes("scenario_outlines",
              Append(feature.scenario_outlines, scenario_outline.val[1]),
              scenario_outline.cur, "body")
    ELSE Return(Ok(scenario_outline.cur, feature))

\* A turn of the body loop where try_scenario gave None: try_scenario_outline,
\* then the end of the input or the "Expected `Scenario`, ..." error
OutlineTried(scenario_outline) ==
    IF scenario_outline.tag # "Ok" THEN Return(scenario_outline)
    ELSE IF scenario_outline.val # None
    THEN Goes("scenario_outlines",
              Append(feature.scenario_outlines, scenario_outline.val[1]),
              scenario_outline.cur, "body")
    ELSE IF Peek(scenario_outline.cur) = None
    THEN Return(Ok(scenario_outline.cur, feature))
    ELSE Return(make_error(scenario_outline.cur,
            "Expected Scenario, Example, Scenario Outline, or Scenario Template",
            scenario_outline.cur))

ScenarioTried(scenario) ==
    IF scenario.tag # "Ok" THEN Return(scenario)
    ELSE IF scenario.val # None
    THEN Goes("scenarios", Append(feature.scenarios, scenario.val[1]),
              scenario.cur, "body")
    ELSE OutlineTried(try_scenario_outline(scenario.cur))

\* One turn of match_feature's loop
FeatureBody ==
    /\ pc = "body"
    /\ ScenarioTried(try_scenario(take_empty_or_comment(cur)))

Next ==
    \/ FeatureTags
    \/ FeatureHeader
    \/ FeatureDescription
    \/ FeatureBackground
    \/ FeatureBody

-----------------------------------------------------------------------------
(* The texts parse_feature is run on.                                      *)

MaxSections == 3
MaxStepLines == 4
MaxExampleLines == 4

\* The sequences over S of length at most n
SeqUpTo(S, n) == UNION {[1..k -> S] : k \in 0..n}

RECURSIVE Flatten(_)
Flatten(seqs) == IF seqs = <<>> THEN <<>> ELSE Head(seqs) \o Flatten(Tail(seqs))

\* How a text begins
Heads ==
    { <<>>,
      <<"Feature: Basic">>,
      <<"@f", "", "feature:">>,
      <<"Scenario: first">> }

\* What follows: section headers with and without their steps, a tag line,
\* free text, blank and comment lines, an opening doc-string delimiter
Sections ==
    { <<"  Background:", "    Given a bunch of droids", "    And a ship">>,
      <<"  Background:", "    Given a bunch of droids", "    When they fly">>,
      <<"  Scenario: Rescue", "    Given an empty table", "    Then we are home">>,
      <<"  Scenario Outline: eat", "    Given <count> biscuits", "    Scenarios:",
        "      |count|", "      | 1 |">>,
      <<"  @a @b">>,
      <<"  Some text">>,
      <<"", "  # a comment">>,
      <<"  Example:">>,
      <<"  Background:">>,
      <<"    When">>,
      <<"    \"\"\"">> }

StructureTexts ==
    {h \o Flatten(ss) : h \in Heads, ss \in SeqUpTo(Sections, MaxSections)}

\* One scenario and the lines of its step block
StepLines ==
    { "Given a table",
      "When it is set:",
      "And",
      "| x | y |",
      "  \"\"\"",
      "  the text",
      " more text",
      "But not this",
      "Scenario: next" }

StepTexts ==
    {<<"Feature: steps", "Scenario: one">> \o ls :
        ls \in SeqUpTo(StepLines, MaxStepLines)}

\* One scenario outline and the lines of its Examples sections
ExampleLines ==
    { "Examples:",
      "| a | b |",
      "| b | a |",
      "| a |",
      "| a | c |",
      "| a | b | c |",
      "@t",
      "Scenario: next" }

ExampleTexts ==
    {<<"Feature: examples", "Scenario Outline: o", "Given <a> and <b>">> \o ls :
        ls \in SeqUpTo(ExampleLines, MaxExampleLines)}

Texts == StructureTexts \cup StepTexts \cup ExampleTexts

Init == (\E input \in Texts : ParseInit(input)) /\ ExpanderIdle /\ ValuesIdle

Spec == Init /\ [][Next]_vars

-----------------------------------------------------------------------------
(* scenario_outline.rs: ScenarioOutline::scenarios, the iterator it        *)
(* returns and the calls of next() on it.                                  *)

\* StepData::replace on a doc-string: every `from` in its text becomes `to`
StepDataReplace(data, from, to) ==
    CASE data.kind = "DocString" -> DocString(Replace(data.string, from, to))

\* ReplaceCell forgetting the step's data
ReplaceCellDescriptionOnly(step, from, to) ==
    [step EXCEPT !.description = Replace(@, from, to)]

\* The closure run for the cell of column idx: the step with
\* `<placeholder>` replaced in its description and in its data
ReplaceCell(step, from, to) ==
    [step EXCEPT !.description = Replace(@, from, to),
                 !.data = IF @ # None THEN Some(StepDataReplace(@[1], from, to))
                          ELSE @]

\* ReplaceCells stopping after the column it starts with
ReplaceCellsFirstOnly(step, s, row, idx) ==
    IF idx > Len(row) THEN step
    ELSE ReplaceCell(step, "<" \o s.placeholders[idx] \o ">", row[idx])

\* row.iter().enumerate().for_each(..) from column idx on
RECURSIVE ReplaceCells(_, _, _, _)
ReplaceCells(step, s, row, idx) ==
    IF idx > Len(row) THEN step
    ELSE ReplaceCells(
            ReplaceCell(step, "<" \o s.placeholders[idx] \o ">", row[idx]),
            s, row, idx + 1)

\* The Scenario the closure builds for row `row` of block s
ScenarioOfRow(o, s, row) ==
    [tags |-> s.tags,
     name |-> o.name,
     description |-> o.description,
     steps |-> [i \in 1..Len(o.steps) |-> ReplaceCells(o.steps[i], s, row, 1)]]

\* NextRow stopping one row short of the end of each block
RECURSIVE NextRowSkippingLast(_, _, _)
NextRowSkippingLast(o, b, r) ==
    IF b > Len(o.scenarios) THEN None
    ELSE IF r < Len(o.scenarios[b].values) THEN Some([b |-> b, r |-> r])
    ELSE NextRowSkippingLast(o, b + 1, 1)

\* flat_map: the place of the next row from row r of block b on, None when
\* the blocks are exhausted
RECURSIVE NextRow(_, _, _)
NextRow(o, b, r) ==
    IF b > Len(o.scenarios) THEN None
    ELSE IF r <= Len(o.scenarios[b].values) THEN Some([b |-> b, r |-> r])
    ELSE NextRow(o, b + 1, 1)

\* OutlineAfterExpansion with the closure working on the outline's own steps
OutlineStepsOverwritten(o, expanded) == [o EXCEPT !.steps = expanded]

\* The outline after a row is expanded: the closure changes the steps of
\* self.steps.clone(), not the outline's own
OutlineAfterExpansion(o, expanded) == o

MaxCalls == 2

\* outline.scenarios(): a new iterator at the first row of the first block
CallScenarios ==
    /\ iter = None
    /\ calls < MaxCalls
    /\ iter' = Some([b |-> 1, r |-> 1])
    /\ calls' = calls + 1
    /\ previous' = yielded
    /\ yielded' = <<>>
    /\ UNCHANGED <<outline, outline0, text, tokens, pc, cur, feature,
                   result>>
    /\ ValuesUnchanged

\* The closure's Scenario is handed out and the iterator moves one row on
Yield(scenario, at) ==
    /\ yielded' = Append(yielded, scenario)
    /\ outline' = OutlineAfterExpansion(outline, scenario.steps)
    /\ iter' = Some([b |-> at.b, r |-> at.r + 1])

YieldAt(at) ==
    Yield(ScenarioOfRow(outline, outline.scenarios[at.b],
                        outline.scenarios[at.b].values[at.r]), at)

\* &s.placeholders[idx] for every idx the row has: whether all are in range
RowInRange(s, row) == Len(row) <= Len(s.placeholders)

\* The panic of an index out of range: next() does not return
IndexPanic ==
    /\ call' = [op |-> "next", panic |-> "index out of bounds"]
    /\ iter' = None
    /\ UNCHANGED <<yielded, outline>>

\* The closure run on the row at `at`
NextAt(at) ==
    IF RowInRange(outline.scenarios[at.b], outline.scenarios[at.b].values[at.r])
    THEN YieldAt(at) /\ UNCHANGED call
    ELSE IndexPanic

\* Iterator::next returning Some(scenario)
IteratorNext ==
    /\ iter # None
    /\ NextRow(outline, iter[1].b, iter[1].r) # None
    /\ NextAt(NextRow(outline, iter[1].b, iter[1].r)[1])
    /\ UNCHANGED <<outline0, previous, calls, text, tokens, pc, cur, feature,
                   result, data_table>>

\* Iterator::next returning None: the iterator is exhausted and dropped
IteratorEnd ==
    /\ iter # None
    /\ NextRow(outline, iter[1].b, iter[1].r) = None
    /\ iter' = None
    /\ UNCHANGED <<outline, outline0, yielded, previous, calls, text, tokens,
                   pc, cur, feature, result>>
    /\ ValuesUnchanged

NextExpand ==
    \/ CallScenarios
    \/ IteratorNext
    \/ IteratorEnd

-----------------------------------------------------------------------------
(* The outlines scenarios() is called on, each block built by              *)
(* TaggedScenarios::new.                                                   *)

MaxBlocks == 2
MaxRows == 2

\* The blocks TaggedScenarios::new builds from the given tags, placeholder
\* lists and rows
BlocksOf(tagss, placeholderss, valuess) ==
    {t[1] : t \in {TaggedScenariosNew(tags, placeholders, values) :
                       tags \in tagss, placeholders \in placeholderss,
                       values \in valuess} \ {None}}

\* Several tagged blocks of several rows under one template
OrderingSteps ==
    << StepNew("Given", "some <a>", None),
       StepNew("Then", "the following text",
               Some(DocString("The text <a>\nwith some <a> bass"))) >>

\* The cell of row n: n times "1"
RECURSIVE RowCell(_)
RowCell(n) == IF n = 0 THEN "" ELSE "1" \o RowCell(n - 1)

\* Blocks of 0..MaxRows rows of one cell, and a list with a row too long,
\* which TaggedScenarios::new refuses
OrderingBlocks ==
    BlocksOf({<<"x">>, <<"y">>}, {<<"a">>},
             {[r \in 1..n |-> <<RowCell(r)>>] : n \in 0..MaxRows}
                 \cup {<< <<"1", "11">> >>})

OrderingOutlines ==
    {[tags |-> <<"o">>, name |-> Some("biscuits"), description |-> Some("tea"),
      steps |-> OrderingSteps, scenarios |-> blocks] :
        blocks \in SeqUpTo(OrderingBlocks, MaxBlocks)}

\* One row under several templates, placeholder lists and cells
Templates ==
    { << StepNew("Given", "some <a>", None),
         StepNew("Then", "the following text",
                 Some(DocString("The text <b>\nwith <a> and <a>"))) >>,
      << StepNew("When", "<a><b> is <a> <c>", None) >>,
      << StepNew("Asterisk", "<<a>b>", Some(DocString(""))) >> }

Cells == {"hihi", "", "<b>", "<a>"}

RowBlocks ==
    BlocksOf({<<>>}, {<<"a", "b">>, <<"b", "a">>, <<"a">>, <<"a", "a">>},
             {<<row>> : row \in SeqUpTo(Cells, 2)})

RowOutlines ==
    {[tags |-> <<>>, name |-> None, description |-> None,
      steps |-> steps, scenarios |-> <<block>>] :
        steps \in Templates, block \in RowBlocks}

Outlines == OrderingOutlines \cup RowOutlines

\* No text is parsed while an outline is expanded
ParserIdle ==
    /\ text = <<>>
    /\ tokens = <<>>
    /\ pc = "expand"
    /\ cur = 0
    /\ feature = NoFeature
    /\ result = Running

InitExpand ==
    /\ outline \in Outlines
    /\ outline0 = outline
    /\ iter = None
    /\ yielded = <<>>
    /\ previous = <<>>
    /\ calls = 0
    /\ ParserIdle
    /\ ValuesIdle

SpecExpand == InitExpand /\ [][NextExpand]_vars

-----------------------------------------------------------------------------
(* data_table.rs and scenario_outline.rs: the constructors called with     *)
(* arguments of every shape, add_row on the table constructed, and         *)
(* scenarios() on an outline of the block constructed.                     *)

MaxColumns == 1
MaxTableRows == 2

TableCells == {"a", "b"}

\* Headers and placeholder lists of up to MaxColumns names; rows that fit
\* them, are too short or too long
Headers == SeqUpTo(TableCells, MaxColumns)
RowCandidates == SeqUpTo(TableCells, MaxColumns + 1)
RowLists == SeqUpTo(RowCandidates, MaxTableRows)

ValuesOtherwiseUnchanged ==
    UNCHANGED <<text, tokens, pc, cur, feature, result, iter, yielded,
                previous, calls>>

\* let table = DataTable::new(header)
CallNew(header) ==
    /\ data_table' = Some(DataTableNew(header))
    /\ call' = [op |-> "new", header |-> header]
    /\ UNCHANGED <<outline, outline0>>
    /\ ValuesOtherwiseUnchanged

\* let table = DataTable::new_populated(header, rows)
CallNewPopulated(header, rows) ==
    /\ data_table' = new_populated(header, rows)
    /\ call' = [op |-> "new_populated", header |-> header, rows |-> rows,
                returned |-> new_populated(header, rows)]
    /\ UNCHANGED <<outline, outline0>>
    /\ ValuesOtherwiseUnchanged

\* table.add_row(row), with what it did
RowAdded(row, added) ==
    /\ data_table' = Some(added.table)
    /\ call' = [op |-> "add_row", row |-> row, before |-> data_table[1],
                ok |-> added.ok]
    /\ UNCHANGED <<outline, outline0>>
    /\ ValuesOtherwiseUnchanged

CallAddRow(row) == RowAdded(row, add_row(data_table[1], row))

\* The outline of one step whose only block is the one constructed
BuiltOutline(block) ==
    [NoOutline EXCEPT !.steps = <<StepNew("Given", "some <a> and <b>", None)>>,
                      !.scenarios = <<block>>]

TaggedScenariosBuilt(tags, placeholders, values, returned) ==
    /\ call' = [op |-> "TaggedScenarios::new", tags |-> tags,
                placeholders |-> placeholders, values |-> values,
                returned |-> returned]
    /\ outline' = IF returned # None THEN BuiltOutline(returned[1]) ELSE outline
    /\ outline0' = outline'
    /\ UNCHANGED data_table
    /\ ValuesOtherwiseUnchanged

\* TaggedScenarios::new(tags, placeholders, values)
CallTaggedScenariosNew(tags, placeholders, values) ==
    TaggedScenariosBuilt(tags, placeholders, values,
                         TaggedScenariosNew(tags, placeholders, values))

\* scenarios() and next() on the outline of the block constructed
ExpandBuilt ==
    /\ outline # NoOutline
    /\ NextExpand

\* One value is constructed, from arguments of every shape
Constructs ==
    /\ call = NoCall
    /\ \/ \E header \in Headers : CallNew(header)
       \/ \E header \in Headers, rows \in RowLists :
             CallNewPopulated(header, rows)
       \/ \E tags \in {<<>>, <<"t">>}, placeholders \in Headers,
                values \in RowLists :
             CallTaggedScenariosNew(tags, placeholders, values)

\* Rows of every shape are added to the table constructed
AddsRow ==
    /\ data_table # None
    /\ Len(data_table[1].rows) < MaxTableRows
    /\ \E row \in RowCandidates : CallAddRow(row)

NextValues ==
    \/ Constructs
    \/ AddsRow
    \/ ExpandBuilt

InitValues == ParserIdle /\ ExpanderIdle /\ ValuesIdle

SpecValues == InitValues /\ [][NextValues]_vars

-----------------------------------------------------------------------------
(* parser/keyword.rs: Keyword::parse called on lines of every spelling,    *)
(* letter case and colon placement.                                        *)

UpperChar(c) ==
    IF \E u \in DOMAIN LowerOf : LowerOf[u] = c
    THEN CHOOSE u \in DOMAIN LowerOf : LowerOf[u] = c
    ELSE c

RECURSIVE ToUpper(_)
ToUpper(s) == IF s = "" THEN "" ELSE UpperChar(Ch(s, 1)) \o ToUpper(From(s, 1))

\* The word in lower case, in upper case, with a capital, and with all but
\* its first letter in upper case
Casings(word) ==
    IF word = "" THEN {""}
    ELSE { word,
           ToUpper(word),
           UpperChar(Ch(word, 1)) \o From(word, 1),
           Ch(word, 1) \o ToUpper(From(word, 1)) }

\* How a line begins: the spellings of the keywords, and words that are none
LineWords ==
    { "examples", "scenarios", "scenario outline", "scenario template",
      "feature", "example", "scenario", "background", "given", "when",
      "then", "and", "but", "*", "hello", "scen", "| a |", "" }

\* How it goes on: with and without the colon, with and without more text
LineRests ==
    { "", ":", ": a name", " some text", ":text:", " it is set:", ": ",
      " it is set: " }

KeywordLines ==
    UNION {{start \o rest : start \in Casings(word), rest \in LineRests} :
              word \in LineWords}

\* Keyword::parse(line, strip_trailing_colon)
CallKeywordParse(line, strip_trailing_colon) ==
    /\ call' = [op |-> "Keyword::parse", line |-> line,
                strip_trailing_colon |-> strip_trailing_colon,
                returned |-> KeywordParse(line, strip_trailing_colon)]
    /\ UNCHANGED <<outline, outline0, data_table>>
    /\ ValuesOtherwiseUnchanged

ParsesKeyword ==
    /\ call = NoCall
    /\ \E line \in KeywordLines, strip_trailing_colon \in BOOLEAN :
          CallKeywordParse(line, strip_trailing_colon)

NextKeyword == ParsesKeyword

SpecKeyword == InitValues /\ [][NextKeyword]_vars

-----------------------------------------------------------------------------
(* Properties of ScenarioOutline::scenarios, under SpecExpand.             *)

\* The rows of an outline as (block, row) places, and their file order
Places(o) ==
    UNION {{<<b, r>> : r \in 1..Len(o.scenarios[b].values)} :
              b \in 1..Len(o.scenarios)}

Before(q, p) == q[1] < p[1] \/ (q[1] = p[1] /\ q[2] < p[2])

\* The k-th row in file order
PlaceAt(o, k) ==
    CHOOSE p \in Places(o) : Cardinality({q \in Places(o) : Before(q, p)}) = k - 1

RECURSIVE SumOfLens(_)
SumOfLens(blocks) ==
    IF blocks = <<>> THEN 0
    ELSE TaggedScenariosLen(Head(blocks)) + SumOfLens(Tail(blocks))

Exhausted == calls >= 1 /\ iter = None

\* The k-th scenario yielded is the expansion of the k-th row in file order
\* and carries its block's tags and the outline's name and description
YieldedInOrder(k) ==
    /\ k <= Cardinality(Places(outline0))
    /\ yielded[k].tags = outline0.scenarios[PlaceAt(outline0, k)[1]].tags
    /\ yielded[k].name = outline0.name
    /\ yielded[k].description = outline0.description
    /\ yielded[k].steps =
         [i \in 1..Len(outline0.steps) |->
            ReplaceCells(outline0.steps[i],
               outline0.scenarios[PlaceAt(outline0, k)[1]],
               outline0.scenarios[PlaceAt(outline0, k)[1]]
                   .values[PlaceAt(outline0, k)[2]], 1)]

\* C1: scenarios() yields one Scenario per example row, block after block in
\* declaration order and row after row inside a block, each with the tags of
\* its own block and the outline's name and description; an exhausted
\* iterator has yielded as many scenarios as the blocks' len() add up to.
C1_OnePerRowInOrder ==
    /\ \A k \in 1..Len(yielded) : YieldedInOrder(k)
    /\ Exhausted => Len(yielded) = SumOfLens(outline0.scenarios)

\* C1's case: two blocks with different tags, two rows then one, all yielded
C1_Witness ==
    /\ Exhausted
    /\ Len(outline0.scenarios) = 2
    /\ outline0.scenarios[1].tags = <<"x">>
    /\ outline0.scenarios[2].tags = <<"y">>
    /\ outline0.scenarios[1].values = << <<"1">>, <<"11">> >>
    /\ outline0.scenarios[2].values = << <<"1">> >>
    /\ Len(yielded) = 3
    /\ yielded[2].steps[1].description = "some 11"
    /\ yielded[2].tags = <<"x">>
    /\ yielded[3].steps[1].description = "some 1"
    /\ yielded[3].tags = <<"y">>

NoAngle(str) == \A i \in 1..Len(str) : Ch(str, i) \notin {"<", ">"}

\* `<` and `>` occur in the text only as the two ends of markers
RECURSIVE MarkersOnly(_, _)
MarkersOnly(str, open) ==
    IF str = "" THEN ~open
    ELSE IF Ch(str, 1) = "<" THEN ~open /\ MarkersOnly(From(str, 1), TRUE)
    ELSE IF Ch(str, 1) = ">" THEN open /\ MarkersOnly(From(str, 1), FALSE)
    ELSE MarkersOnly(From(str, 1), open)

\* The text with every marker `<p>` replaced, in one pass, by the row's cell
\* of the first column named p
RECURSIVE Substituted(_, _, _)
Substituted(str, s, row) ==
    IF str = "" THEN ""
    ELSE LET hits == {i \in 1..Len(row) :
                         StartsWith(str, "<" \o s.placeholders[i] \o ">")}
             first == CHOOSE i \in hits : \A j \in hits : i <= j
         IN  IF hits = {}
             THEN Ch(str, 1) \o Substituted(From(str, 1), s, row)
             ELSE row[first] \o
                  Substituted(From(str, Len(s.placeholders[first]) + 2), s, row)

\* Step i of the k-th scenario yielded is step i of the template with its
\* markers replaced by the cells of the k-th row
StepSubstituted(step, template, s, row) ==
    /\ step.ty = template.ty
    /\ step.description = Substituted(template.description, s, row)
    /\ Len(step.data) = Len(template.data)
    /\ template.data # None =>
         /\ step.data[1].kind = "DocString"
         /\ step.data[1].string = Substituted(template.data[1].string, s, row)

ScenarioSubstituted(k, s, row) ==
    /\ Len(yielded[k].steps) = Len(outline0.steps)
    /\ \A i \in 1..Len(outline0.steps) :
          StepSubstituted(yielded[k].steps[i], outline0.steps[i], s, row)

\* Neither the cells of the row, nor the names of the columns, nor the
\* template outside its markers hold a `<` or a `>`
PlainRow(s, row) ==
    /\ \A i \in 1..Len(row) : NoAngle(row[i]) /\ NoAngle(s.placeholders[i])
    /\ \A i \in 1..Len(outline0.steps) :
          /\ MarkersOnly(outline0.steps[i].description, FALSE)
          /\ outline0.steps[i].data # None =>
                MarkersOnly(outline0.steps[i].data[1].string, FALSE)

BlockAt(k) == outline0.scenarios[PlaceAt(outline0, k)[1]]
RowAt(k) == BlockAt(k).values[PlaceAt(outline0, k)[2]]

\* C2, as stated: for every example row the expanded description and
\* doc-string are the template's with every `<placeholder>` replaced by the
\* row's cell of the column named placeholder; step type and count are the
\* template's.
C2_EveryRowSubstituted ==
    \A k \in 1..Len(yielded) : ScenarioSubstituted(k, BlockAt(k), RowAt(k))

\* C2, amended: the same for every row whose cells and column names hold no
\* `<` or `>`, under a template where these occur only as the ends of markers.
C2_PlainRowSubstituted ==
    \A k \in 1..Len(yielded) :
        PlainRow(BlockAt(k), RowAt(k)) =>
            ScenarioSubstituted(k, BlockAt(k), RowAt(k))

\* C2's case: "some <a>" with a = "hihi", and a doc-string with <a> twice
C2_Witness ==
    /\ Len(yielded) = 1
    /\ PlainRow(BlockAt(1), RowAt(1))
    /\ outline0.steps[1].description = "some <a>"
    /\ yielded[1].steps[1].description = "some hihi"
    /\ yielded[1].steps[2].data[1].string = "The text hihi\nwith hihi and hihi"

\* C3: scenarios() is restartable and read-only: a second call yields the
\* same sequence as the first, element by element, and the outline (template
\* steps with their markers, tags, example blocks) is what it was.
C3_RestartableReadOnly ==
    /\ outline = outline0
    /\ calls >= 2 =>
          /\ Len(yielded) <= Len(previous)
          /\ \A k \in 1..Len(yielded) : yielded[k] = previous[k]
          /\ iter = None => yielded = previous

\* C3's case: a second call has run to its end over two rows or more, and
\* the rows changed the steps handed out
C3_Witness ==
    /\ calls = 2
    /\ iter = None
    /\ Len(yielded) >= 2
    /\ yielded[1].steps # outline.steps
    /\ yielded[1].steps # yielded[2].steps

-----------------------------------------------------------------------------
(* Properties of Parser::parse_feature, under Spec.                        *)

Accepted == result.tag = "Ok"

\* C4: an outline with several Examples tables is accepted if and only if
\* every later table has the set of column names of the first one; here the
\* half that a parse which is accepted has only such tables: a later table
\* with another name, with a column more or with a column less is refused.
C4_AcceptedTablesHaveFirstSet ==
    Accepted =>
        \A i \in 1..Len(result.val.scenario_outlines) :
            \A j \in 1..Len(result.val.scenario_outlines[i].scenarios) :
                SetOf(result.val.scenario_outlines[i].scenarios[j].placeholders)
                  = SetOf(result.val.scenario_outlines[i].scenarios[1].placeholders)

\* The type a step stands for: its own, or for a continuation the type of the
\* step it continues
RECURSIVE Governing(_, _)
Governing(steps, i) ==
    IF steps[i].ty \notin {"And", "But", "Asterisk"} \/ i = 1 THEN steps[i].ty
    ELSE Governing(steps, i - 1)

\* C5: every Feature returned has a background whose steps are all Given, or
\* And/But continuing a Given; a Background with a When or Then step is
\* refused.
C5_BackgroundGivenOnly ==
    Accepted =>
        \A i \in 1..Len(result.val.background) :
            Governing(result.val.background, i) = "Given"

\* C6: parse_feature returns Ok or Err on every text, the empty one and the
\* ones whose error is met at the end of the input included; it never panics.
C6_NeverPanics == result.tag # "Panic"

\* C7: the line quoted in an error message is the line on which the error
\* was detected, not the line after it.
C7_QuotesDetectedLine ==
    result.tag = "Err" =>
        /\ result.seen < Len(text)
        /\ result.quoted = Some(text[result.seen + 1])

IsTagLine(line) ==
    /\ StartsWith(Trim(line), "@")
    /\ \A i \in 1..Len(Split(Trim(line), " ")) :
          StartsWith(Trim(Split(Trim(line), " ")[i]), "@")

TagsOfLine(line) ==
    [i \in 1..Len(Split(Trim(line), " ")) |->
        From(Trim(Split(Trim(line), " ")[i]), 1)]

\* The header that line i holds, None if it holds none
HeaderAt(i) == KeywordParse(TrimStart(text[i]), FALSE)

NoDocStringBefore(i) == \A j \in 1..(i - 1) : Trim(text[j]) # TripleQuote

\* The elements of the feature returned that a header of the keyword opens
ElementsOf(keyword) ==
    IF keyword = "Feature" THEN <<result.val>>
    ELSE IF keyword = "Scenario" THEN result.val.scenarios
    ELSE IF keyword = "ScenarioOutline" THEN result.val.scenario_outlines
    ELSE <<>>

Attached(elements, name, tags) ==
    \E k \in 1..Len(elements) :
        elements[k].name = name /\ elements[k].tags = tags

\* Line i is one tag line, alone, directly before a header on line i + 1
TagLineBeforeHeader(i) ==
    /\ IsTagLine(text[i])
    /\ i = 1 \/ ~IsTagLine(text[i - 1])
    /\ HeaderAt(i + 1) # None
    /\ HeaderAt(i + 1)[1].keyword \in {"Feature", "Scenario", "ScenarioOutline"}
    /\ NoDocStringBefore(i)

\* C8: a tag line directly before a Feature, Scenario/Example or Scenario
\* Outline header is attached to that element, whose tags are exactly the
\* tags of the line, wherever the element stands in the file; no tag line is
\* dropped or read as description.
C8_TagLineAttached ==
    Accepted =>
        \A i \in 1..(Len(text) - 1) :
            TagLineBeforeHeader(i) =>
                Attached(ElementsOf(HeaderAt(i + 1)[1].keyword),
                         KwLine(HeaderAt(i + 1)[1]).rest,
                         TagsOfLine(text[i]))

\* Line i is a step line with a description
IsStepLine(i) ==
    /\ KeywordParse(TrimStart(text[i]), TRUE) # None
    /\ KeywordParse(TrimStart(text[i]), TRUE)[1].keyword \in StepKeywords
    /\ KeywordParse(TrimStart(text[i]), TRUE)[1].leftover # ""
    /\ NoDocStringBefore(i)

HasTrailingColon(i) == EndsWith(TrimEnd(text[i]), ":")

\* A data table or a doc-string is the next content after line i
DataFollows(i) ==
    /\ take_empty_or_comment(i) < Len(text)
    /\ \/ IsTableLine(text[take_empty_or_comment(i) + 1])
       \/ Trim(text[take_empty_or_comment(i) + 1]) = TripleQuote

\* C9: a step line that ends with a colon must be followed directly by a
\* doc-string or a data table; when anything else follows (a step line, a
\* header, the end of the input) the parse fails.
C9_ColonNeedsData ==
    Accepted =>
        \A i \in 1..Len(text) :
            IsStepLine(i) /\ HasTrailingColon(i) => DataFollows(i)

\* Every step of the feature returned
StepsOfAll(elements) ==
    UNION {SetOf(elements[k].steps) : k \in 1..Len(elements)}

AllSteps ==
    SetOf(result.val.background) \cup StepsOfAll(result.val.scenarios)
        \cup StepsOfAll(result.val.scenario_outlines)

\* C10: a step line without a trailing colon has no attachment attempted: its
\* Step has data = None, and a data table or doc-string on the following
\* lines is not taken as its data.
C10_NoColonNoData ==
    Accepted =>
        \A i \in 1..Len(text) :
            IsStepLine(i) /\ ~HasTrailingColon(i) =>
                \E step \in AllSteps :
                    /\ step.ty = KeywordParse(TrimStart(text[i]), TRUE)[1].keyword
                    /\ step.description =
                         KeywordParse(TrimStart(text[i]), TRUE)[1].leftover
                    /\ step.data = None

\* The step sequences of the feature returned
StepBlocks ==
    (IF result.val.background = <<>> THEN {} ELSE {result.val.background})
      \cup {result.val.scenarios[k].steps :
               k \in 1..Len(result.val.scenarios)}
      \cup {result.val.scenario_outlines[k].steps :
               k \in 1..Len(result.val.scenario_outlines)}

\* C11: the first step line of a step block must be Given, When, Then or `*`;
\* a block that begins with And or But is refused, so no step sequence of a
\* feature returned starts with an And or a But step.
C11_NoLeadingAndBut ==
    Accepted =>
        \A steps \in StepBlocks : steps[1].ty \notin {"And", "But"}

\* Line i cannot end a description: it is not blank, not a comment, not a tag
\* line, and holds no Feature, Background, Scenario, Scenario Outline or
\* Examples header
IsDescriptionLine(i) ==
    /\ ~IsEmptyOrComment(text[i])
    /\ ~StartsWith(Trim(text[i]), "@")
    /\ \/ KeywordParse(Trim(text[i]), FALSE) = None
       \/ KeywordParse(Trim(text[i]), FALSE)[1].keyword \in StepKeywords

\* The lines from i on without the indentation, each followed by a newline
RECURSIVE Unindented(_, _)
Unindented(i, indent) ==
    IF i > Len(text) THEN ""
    ELSE From(text[i], Len(indent)) \o "\n" \o Unindented(i + 1, indent)

\* The text is a Feature header and, after it, description lines only, all
\* indented as the first of them
HeaderAndDescription ==
    /\ Len(text) >= 2
    /\ HeaderAt(1) # None
    /\ HeaderAt(1)[1].keyword = "Feature"
    /\ \A i \in 2..Len(text) :
          /\ IsDescriptionLine(i)
          /\ StartsWith(text[i], LeadingWhitespace(text[2]))

\* C12: the feature's description takes every line after the Feature header
\* up to the next Background, Scenario or Scenario Outline header or the end
\* of the input; a line that begins with a step keyword word, or that names a
\* section keyword with the colon misplaced, is kept as description and does
\* not make the parse fail.
C12_DescriptionKeepsStepWords ==
    pc = "done" /\ HeaderAndDescription =>
        /\ Accepted
        /\ result.val.description =
             Some(TrimEnd(Unindented(2, LeadingWhitespace(text[2]))))

IsSectionHeader(i) ==
    /\ HeaderAt(i) # None
    /\ HeaderAt(i)[1].keyword \in SectionKeywords

\* Line i is a Background, Scenario or Scenario Outline header outside any
\* doc-string
OpensStepBlock(i) ==
    /\ HeaderAt(i) # None
    /\ HeaderAt(i)[1].keyword \in {"Background", "Scenario", "ScenarioOutline"}
    /\ NoDocStringBefore(i)

\* After line i come, blank lines and comments apart, a section header or the
\* end of the input
NoStepFollows(i) ==
    \/ take_empty_or_comment(i) = Len(text)
    \/ IsSectionHeader(take_empty_or_comment(i) + 1)

HeaderThenHeader(i) ==
    /\ take_empty_or_comment(i) < Len(text)
    /\ IsSectionHeader(take_empty_or_comment(i) + 1)

AllBlocksHaveSteps ==
    \A steps \in StepBlocks :
        /\ Len(steps) >= 1
        /\ \A k \in 1..Len(steps) : steps[k].description # ""

ScenariosHaveSteps ==
    /\ \A k \in 1..Len(result.val.scenarios) :
          result.val.scenarios[k].steps # <<>>
    /\ \A k \in 1..Len(result.val.scenario_outlines) :
          result.val.scenario_outlines[k].steps # <<>>

\* C13: every Scenario, Scenario Outline and non-empty Background of a
\* feature returned has at least one step, each with a description; a
\* Scenario, Scenario Outline or Background header followed by no step line
\* (another header comes next, or the input ends) makes parse_feature return
\* an error.
C13_AtLeastOneStep ==
    /\ Accepted => AllBlocksHaveSteps /\ ScenariosHaveSteps
    /\ pc = "done" =>
          \A i \in 1..Len(text) :
              OpensStepBlock(i) /\ NoStepFollows(i) => result.tag = "Err"

\* The part of C13 that is about the features returned and about a header
\* followed by another header
C13_StepsOrErrorBeforeHeader ==
    /\ Accepted => AllBlocksHaveSteps /\ ScenariosHaveSteps
    /\ pc = "done" =>
          \A i \in 1..Len(text) :
              OpensStepBlock(i) /\ HeaderThenHeader(i) => result.tag = "Err"

IsExamplesHeader(i) ==
    /\ HeaderAt(i) # None
    /\ HeaderAt(i)[1].keyword = "Scenarios"
    /\ NoDocStringBefore(i)

\* A data table is the next content after line i
TableFollows(i) ==
    /\ take_empty_or_comment(i) < Len(text)
    /\ IsTableLine(text[take_empty_or_comment(i) + 1])

\* Line i is a Scenario Outline header, line i + 1 its only step
OutlineWithOneStep(i) ==
    /\ OpensStepBlock(i)
    /\ HeaderAt(i)[1].keyword = "ScenarioOutline"
    /\ i < Len(text)
    /\ IsStepLine(i + 1)

\* After the outline's step come the end of the input or a header that is
\* not an Examples header
NoExamplesFollow(i) ==
    \/ take_empty_or_comment(i + 1) = Len(text)
    \/ /\ IsSectionHeader(take_empty_or_comment(i + 1) + 1)
       /\ ~IsExamplesHeader(take_empty_or_comment(i + 1) + 1)

RECURSIVE CountBlocks(_)
CountBlocks(outlines) ==
    IF outlines = <<>> THEN 0
    ELSE Len(Head(outlines).scenarios) + CountBlocks(Tail(outlines))

\* Every outline returned has an example block, and in a text without
\* doc-strings there is one block per Examples header, each header with a
\* data table after it
OutlinesHaveExamples ==
    /\ \A k \in 1..Len(result.val.scenario_outlines) :
          Len(result.val.scenario_outlines[k].scenarios) >= 1
    /\ NoDocStringBefore(Len(text) + 1) =>
          /\ CountBlocks(result.val.scenario_outlines)
                = Cardinality({i \in 1..Len(text) : IsExamplesHeader(i)})
          /\ \A i \in 1..Len(text) : IsExamplesHeader(i) => TableFollows(i)

\* C14: every ScenarioOutline of a feature returned has at least one example
\* block, each built from the data table after an Examples/Scenarios header;
\* an outline whose steps are followed by no such header (another section, or
\* the end of the input) returns an error, and so does an Examples header
\* that is not followed by a data table.
C14_AtLeastOneExamples ==
    /\ Accepted => OutlinesHaveExamples
    /\ pc = "done" =>
          \A i \in 1..Len(text) :
              /\ OutlineWithOneStep(i) /\ NoExamplesFollow(i)
                    => result.tag = "Err"
              /\ IsExamplesHeader(i) /\ ~TableFollows(i) => result.tag = "Err"

\* The part of C14 where the error is met before the end of the input
C14_ExamplesOrErrorBeforeEnd ==
    /\ Accepted => OutlinesHaveExamples
    /\ pc = "done" =>
          \A i \in 1..Len(text) :
              /\ OutlineWithOneStep(i) /\ NoExamplesFollow(i)
                 /\ take_empty_or_comment(i + 1) < Len(text)
                    => result.tag = "Err"
              /\ IsExamplesHeader(i) /\ ~TableFollows(i)
                 /\ take_empty_or_comment(i) < Len(text)
                    => result.tag = "Err"

ExpectedScenario ==
    "Expected Scenario, Example, Scenario Outline, or Scenario Template"

\* Line c + 1 is there and is neither a tag line nor a Scenario or Scenario
\* Outline header
Unmatched(c) ==
    /\ c < Len(text)
    /\ ~StartsWith(Trim(text[c + 1]), "@")
    /\ \/ HeaderAt(c + 1) = None
       \/ HeaderAt(c + 1)[1].keyword \notin {"Scenario", "ScenarioOutline"}

\* The names on the header lines of the keyword, from line i on, in file order
RECURSIVE NamesFrom(_, _)
NamesFrom(i, keyword) ==
    IF i > Len(text) THEN <<>>
    ELSE (IF HeaderAt(i) # None /\ HeaderAt(i)[1].keyword = keyword
          THEN <<KwLine(HeaderAt(i)[1]).rest>> ELSE <<>>)
         \o NamesFrom(i + 1, keyword)

NamesOf(elements) == [k \in 1..Len(elements) |-> elements[k].name]

\* Ok is returned at the end of the input only, with the scenarios and the
\* outlines in the order of their headers
ConsumedInOrder ==
    Accepted =>
        /\ result.cur = Len(text)
        /\ NoDocStringBefore(Len(text) + 1) =>
              /\ NamesOf(result.val.scenarios) = NamesFrom(1, "Scenario")
              /\ NamesOf(result.val.scenario_outlines)
                    = NamesFrom(1, "ScenarioOutline")

\* A turn of the body loop that finds a line which opens neither a scenario
\* nor an outline returns the error, quoting that line
LeftoverRefused ==
    pc = "body" /\ Unmatched(take_empty_or_comment(cur)) =>
        /\ pc' = "done"
        /\ result'.tag = "Err"
        /\ result'.msg = ExpectedScenario
        /\ result'.quoted = Some(text[take_empty_or_comment(cur) + 1])

\* C15: parse_feature returns Ok only when the whole input is consumed; when
\* the body loop meets a non-blank, non-comment line that opens neither a
\* Scenario nor a Scenario Outline (a second Background: or Feature: line,
\* plain text) the parse fails with the "Expected Scenario, ..." error; the
\* scenarios and the outlines returned are in file order.
C15_WholeInputOrError == []ConsumedInOrder /\ [][LeftoverRefused]_vars

\* C15's case: a scenario is parsed, a second Background: line follows, and
\* the parse has ended with the error
C15_Witness ==
    /\ pc = "done"
    /\ result.tag = "Err"
    /\ result.msg = ExpectedScenario
    /\ Len(feature.scenarios) = 1
    /\ HeaderAt(result.seen + 1) # None
    /\ HeaderAt(result.seen + 1)[1].keyword = "Background"

-----------------------------------------------------------------------------
(* Properties of DataTable and TaggedScenarios, under SpecValues.          *)

RowsFit(header, rows) == \A i \in 1..Len(rows) : Len(rows[i]) = Len(header)

\* What add_row has to have done, from the table before the call
AddRowDone ==
    IF Len(call.row) = Len(header_of(call.before))
    THEN /\ call.ok
         /\ data_table = Some([header |-> header_of(call.before),
                               rows |-> Append(rows_of(call.before), call.row)])
    ELSE /\ ~call.ok
         /\ data_table = Some(call.before)

\* C16: after any sequence of DataTable::new, new_populated and add_row
\* calls every row of the table has header().len() cells: add_row with a row
\* of the header's length appends it as the last row and returns Ok, with a
\* row of any other length it returns Err and leaves header and rows as they
\* were.
C16_RowsMatchHeader ==
    /\ data_table # None =>
          RowsFit(header_of(data_table[1]), rows_of(data_table[1]))
    /\ call.op = "add_row" => AddRowDone

\* C16's case: a row was added, and the next one, of another length, refused
C16_Witness ==
    /\ call.op = "add_row"
    /\ ~call.ok
    /\ Len(call.row) > Len(header_of(data_table[1]))
    /\ rows_of(data_table[1]) = << <<"b">> >>

\* C17: new_populated(header, rows) succeeds exactly when every row has
\* header.len() cells, and then header() and rows() return the header and
\* the rows given, in the order given; otherwise it returns no table.
C17_NewPopulatedRoundTrip ==
    call.op = "new_populated" =>
        /\ (call.returned # None) = RowsFit(call.header, call.rows)
        /\ data_table = call.returned
        /\ call.returned # None =>
              /\ header_of(call.returned[1]) = call.header
              /\ rows_of(call.returned[1]) = call.rows

\* C17's case: a table of two different rows was constructed
C17_Witness ==
    /\ call.op = "new_populated"
    /\ call.header = <<"a">>
    /\ call.rows = << <<"b">>, <<"a">> >>
    /\ data_table # None
    /\ rows_of(data_table[1]) = << <<"b">>, <<"a">> >>

BlocksFit(o) ==
    \A b \in 1..Len(o.scenarios) :
        RowsFit(o.scenarios[b].placeholders, o.scenarios[b].values)

\* C18: TaggedScenarios::new fails whenever the length of some row differs
\* from the number of placeholders and succeeds otherwise, so every
\* TaggedScenarios value has rows of the placeholders' length, and
\* scenarios() never indexes the placeholders out of range.
C18_RowLengthsChecked ==
    /\ call.op = "TaggedScenarios::new" =>
          /\ (call.returned # None) = RowsFit(call.placeholders, call.values)
          /\ call.returned # None =>
                call.returned[1] = [tags |-> call.tags,
                                    placeholders |-> call.placeholders,
                                    values |-> call.values]
    /\ BlocksFit(outline)
    /\ call.op # "next"

\* C18's case: a block of two rows was constructed and scenarios() has run
\* over it to its end
C18_Witness ==
    /\ call.op = "TaggedScenarios::new"
    /\ call.returned # None
    /\ Len(call.placeholders) = 1
    /\ Len(call.values) = 2
    /\ calls >= 1
    /\ iter = None
    /\ Len(yielded) = 2

\* The same for the outlines parse_feature returns, under Spec: the blocks
\* it builds through TaggedScenarios::new have rows of the placeholders'
\* length
C18_ParsedBlocksFit ==
    Accepted =>
        \A k \in 1..Len(result.val.scenario_outlines) :
            BlocksFit(result.val.scenario_outlines[k])

-----------------------------------------------------------------------------
(* Properties of Keyword::parse, under SpecKeyword.                        *)

\* The entries of the table whose spelling begins the line in lower case
Matching(line) ==
    {i \in 1..Len(combinations) :
        StartsWith(ToAsciiLowercase(line), combinations[i][2])}

\* The line begins, in whatever letter case, with the prefix, and is
\* classified as the keyword
ClassifiedAs(prefix, keyword) ==
    StartsWith(ToAsciiLowercase(call.line), prefix) =>
        /\ call.returned # None
        /\ call.returned[1].keyword = keyword

\* C19: Keyword::parse classifies a line by the first spelling of the table
\* that the line in lower case starts with; so, in every letter case,
\* `Scenario Outline:` and `Scenario Template:` are ScenarioOutline,
\* `Scenarios:` and `Examples:` are the Examples keyword, `Scenario:` and
\* `Example:` are Scenario.
C19_FirstSpellingWins ==
    call.op = "Keyword::parse" =>
        /\ call.returned # None =>
              /\ Matching(call.line) # {}
              /\ \A i \in Matching(call.line) :
                    (\A j \in Matching(call.line) : i <= j) =>
                        call.returned[1].keyword = combinations[i][1]
        /\ ClassifiedAs("scenario outline:", "ScenarioOutline")
        /\ ClassifiedAs("scenario template:", "ScenarioOutline")
        /\ ClassifiedAs("scenarios:", "Scenarios")
        /\ ClassifiedAs("examples:", "Scenarios")
        /\ ClassifiedAs("scenario:", "Scenario")
        /\ ClassifiedAs("example:", "Scenario")

\* C19's case: an upper-case outline header, which also begins with the
\* spelling of Scenario
C19_Witness ==
    /\ call.op = "Keyword::parse"
    /\ call.line = "SCENARIO OUTLINE: a name"
    /\ call.returned # None
    /\ call.returned[1].keyword = "ScenarioOutline"
    /\ call.returned[1].leftover = "a name"

\* The keyword stands at the head of the line under one of its spellings,
\* followed by a colon if it is a section keyword and by no colon if it is a
\* step keyword
ColonFits(line, keyword, keyword_name) ==
    /\ \E i \in 1..Len(combinations) :
          /\ combinations[i][1] = keyword
          /\ combinations[i][2] = ToAsciiLowercase(keyword_name)
    /\ StartsWith(line, keyword_name)
    /\ keyword \in {"Feature", "Scenario", "Background", "ScenarioOutline",
                    "Scenarios"}
          => StartsWith(From(line, Len(keyword_name)), ":")
    /\ keyword \in {"Given", "When", "Then", "And", "But", "Asterisk"}
          => ~StartsWith(From(line, Len(keyword_name)), ":")

\* C20: Keyword::parse returns a keyword only when the colon placement fits
\* it: a section keyword only if the character right after the spelling is
\* `:`, a step keyword only if it is not; otherwise, and when no spelling
\* matches, it returns none.
C20_ColonPlacement ==
    call.op = "Keyword::parse" =>
        /\ Matching(call.line) = {} => call.returned = None
        /\ call.returned # None =>
              ColonFits(call.line, call.returned[1].keyword,
                        call.returned[1].keyword_name)

\* C20's case: a section keyword without its colon is no keyword
C20_Witness ==
    /\ call.op = "Keyword::parse"
    /\ call.line = "Feature some text"
    /\ call.returned = None


-----------------------------------------------------------------------------
\* Step lines, as the step block reads them: peek_kw_line hands the line
\* without its leading whitespace to Keyword::parse with strip_colon set

\* The call classified a step line and was asked to strip the trailing colon
StepLineStripped ==
    /\ call.op = "Keyword::parse"
    /\ call.strip_trailing_colon
    /\ call.returned # None
    /\ call.returned[1].keyword \in StepKeywords

\* What follows the keyword on the source line, trimmed on both sides
TrimmedContent ==
    Trim(From(call.line, Len(call.returned[1].keyword_name)))

\* C21: for a step line classified with the trailing colon to be stripped,
\* the returned content is the rest of the line trimmed on both sides, less
\* its final colon if it has one, and the flag tells whether it had one; so
\* the content ends neither with `:` nor with whitespace, also when
\* whitespace follows the colon on the line.
C21_StepContentTrimmed ==
    StepLineStripped =>
        /\ call.returned[1].last_is_colon = EndsWith(TrimmedContent, ":")
        /\ call.returned[1].leftover =
              IF EndsWith(TrimmedContent, ":")
              THEN SubSeq(TrimmedContent, 1, Len(TrimmedContent) - 1)
              ELSE TrimmedContent
        /\ ~EndsWith(call.returned[1].leftover, ":")
        /\ call.returned[1].leftover = TrimEnd(call.returned[1].leftover)

\* The part of C21 that holds: on a step line with nothing after its last
\* visible character, the content is the trimmed rest less its final colon
C21_NoTrailingSpaceTrimmed ==
    (StepLineStripped /\ call.line = TrimEnd(call.line)) =>
        /\ call.returned[1].last_is_colon = EndsWith(TrimmedContent, ":")
        /\ call.returned[1].leftover =
              IF EndsWith(TrimmedContent, ":")
              THEN SubSeq(TrimmedContent, 1, Len(TrimmedContent) - 1)
              ELSE TrimmedContent



-----------------------------------------------------------------------------
(* lex.rs: the lexer of the token-based parser.  Lexer.current_line is     *)
(* `cur`; the vector of tokens pushed so far is `tokens`.                  *)

\* struct Token: the kind with its value, and the lines it spans
Token(kind, value, start_line, end_line) ==
    [kind |-> kind, value |-> value,
     start_line |-> start_line, end_line |-> end_line]

\* TableRowIter: the pieces after the first `|`, trimmed; the piece no `|`
\* follows is not yielded
TableRowIter(input) ==
    With(Tail(Split(input, "|")), LAMBDA inner :
        [i \in 1..(Len(inner) - 1) |-> Trim(inner[i])])

\* tokenize_docstring's loop, c lines being consumed: the closing line, a
\* line without the opening indent, or the end of the input
RECURSIVE DocStringToken(_, _, _, _)
DocStringToken(start_line_idx, start_indent, string, c) ==
    IF c >= Len(text)
    THEN [tag |-> "Err", kind |-> "UnclosedDocString", line_num |-> c]
    ELSE IF StartsWith(Trim(text[c + 1]), TripleQuote)
    THEN [tag |-> "Some",
          token |-> Token("DocString", string, start_line_idx, c + 1)]
    ELSE IF ~StartsWith(text[c + 1], start_indent)
    THEN [tag |-> "Err", kind |-> "StringInconsistentIndent",
          line_num |-> c + 1]
    ELSE DocStringToken(start_line_idx, start_indent,
            string \o From(text[c + 1], Len(start_indent)) \o "\n", c + 1)

\* Lexer::tokenize_docstring with c lines consumed
tokenize_docstring(c) ==
    IF c >= Len(text) \/ ~StartsWith(TrimStart(text[c + 1]), TripleQuote)
    THEN [tag |-> "None"]
    ELSE DocStringToken(c, LeadingWhitespace(text[c + 1]), "", c + 1)

\* tokenize_table's loop over the rows: the rows and the lines consumed
RECURSIVE TableRowsFrom(_, _)
TableRowsFrom(rows, c) ==
    IF c < Len(text) /\ StartsWith(TrimStart(text[c + 1]), "|")
    THEN TableRowsFrom(Append(rows, TableRowIter(text[c + 1])), c + 1)
    ELSE [rows |-> rows, end_line |-> c]

\* tokenize_table as it would be with start_line taken after the header
\* line was read
TokenizeTableStartingLate(c) ==
    IF c >= Len(text) \/ ~StartsWith(TrimStart(text[c + 1]), "|") THEN None
    ELSE With(TableRowsFrom(<<>>, c + 1), LAMBDA got :
            Some(Token("DataTable",
                       [header |-> TableRowIter(text[c + 1]),
                        rows |-> got.rows],
                       c + 1, got.end_line)))

\* Lexer::tokenize_table with c lines consumed
tokenize_table(c) ==
    IF c >= Len(text) \/ ~StartsWith(TrimStart(text[c + 1]), "|") THEN None
    ELSE With(TableRowsFrom(<<>>, c + 1), LAMBDA got :
            Some(Token("DataTable",
                       [header |-> TableRowIter(text[c + 1]),
                        rows |-> got.rows],
                       c, got.end_line)))

\* The token of one line: a comment without its `#`, or the trimmed line
LineToken(c) ==
    IF StartsWith(Trim(text[c + 1]), "#")
    THEN Token("Comment", From(Trim(text[c + 1]), 1), c, c + 1)
    ELSE Token("Line", Trim(text[c + 1]), c, c + 1)

\* Lexer::lex goes on at `to` with the tokens pushed, current_line and
\* what parse_feature has returned
LexGoes(toks, current_line, to, r) ==
    /\ tokens' = toks
    /\ cur' = current_line
    /\ pc' = to
    /\ result' = r

\* One turn of the loop of Lexer::lex: the token is pushed and current_line
\* stands after its last line; an error, made at current_line, is what
\* parse_feature returns (`?`); at the end of the input Parser::new(text)
\* starts with current_end_line 0
LexTurn ==
    /\ pc = "lex"
    /\ \E doc \in {tokenize_docstring(cur)} :
          IF doc.tag = "Err"
          THEN LexGoes(tokens, doc.line_num, "done",
                       [tag |-> "Err", kind |-> "Lex", what |-> doc.kind,
                        line_num |-> doc.line_num])
          ELSE IF doc.tag = "Some"
          THEN LexGoes(Append(tokens, doc.token), doc.token.end_line, "lex",
                       result)
          ELSE IF tokenize_table(cur) # None
          THEN LexGoes(Append(tokens, tokenize_table(cur)[1]),
                       tokenize_table(cur)[1].end_line, "lex", result)
          ELSE IF cur < Len(text)
          THEN LexGoes(Append(tokens, LineToken(cur)), cur + 1, "lex", result)
          ELSE LexGoes(tokens, 0, "parse", result)
    /\ UNCHANGED <<text, feature>>
    /\ ExpanderUnchanged
    /\ ValuesUnchanged


-----------------------------------------------------------------------------
(* parse.rs: the token-based parser.  `tokens` is the peekable iterator   *)
(* over the tokens not consumed yet, `cur` is Parser.current_end_line.    *)
(* An operator that may consume tokens returns, with its value, the        *)
(* tokens left (toks) and the current_end_line (end).                      *)

\* parse.rs Keyword::combinations
KeywordCombinations ==
    << <<"Examples", "examples">>, <<"Examples", "scenarios">>,
       <<"ScenarioOutline", "scenario outline">>,
       <<"ScenarioOutline", "scenario template">>,
       <<"Feature", "feature">>, <<"Example", "example">>,
       <<"Example", "scenario">>, <<"Given", "given">>, <<"When", "when">>,
       <<"Then", "then">>, <<"And", "and">>, <<"But", "but">>,
       <<"Background", "background">>, <<"Asterisk", "*">> >>

\* make_error: the error with current_end_line as its line
Fails(kind, what, toks, end) ==
    [tag |-> "Err", kind |-> kind, what |-> what, line_num |-> end,
     toks |-> toks, end |-> end]

\* consume_token: the tokens after the first, whose end_line is recorded
Consumed(toks, K(_, _)) == K(Tail(toks), Head(toks).end_line)

\* find_map over the combinations from the i-th on: the place of the first
\* the line in lower case starts with, 0 if there is none
RECURSIVE FindKeyword(_, _)
FindKeyword(content_lower, i) ==
    IF i > Len(KeywordCombinations) THEN 0
    ELSE IF StartsWith(content_lower, KeywordCombinations[i][2]) THEN i
    ELSE FindKeyword(content_lower, i + 1)

\* Parser::parse_line: Ok(None) for an empty line, InvalidKeyword for a
\* line no spelling begins; else the keyword, whether a colon follows it,
\* and the trimmed contents less a trailing colon, None if nothing is left
parse_line(line) ==
    IF line = "" THEN [tag |-> "Ok", val |-> None]
    ELSE IF FindKeyword(ToAsciiLowercase(line), 1) = 0
    THEN [tag |-> "Err", kind |-> "InvalidKeyword"]
    ELSE With(KeywordCombinations[FindKeyword(ToAsciiLowercase(line), 1)],
              LAMBDA found :
         With(From(line, Len(found[2])), LAMBDA after :
         With(Trim(IF StartsWith(after, ":") THEN From(after, 1) ELSE after),
              LAMBDA contents :
            [tag |-> "Ok",
             val |-> Some(
                [keyword |-> found[1],
                 has_kw_colon |-> StartsWith(after, ":"),
                 contents |->
                    IF EndsWith(contents, ":")
                    THEN IF Len(contents) = 1 THEN None
                         ELSE Some([text |-> SubSeq(contents, 1,
                                                    Len(contents) - 1),
                                    colon |-> TRUE])
                    ELSE IF contents = "" THEN None
                    ELSE Some([text |-> contents, colon |-> FALSE])])])))

\* Parser::peek_kw_line: comments, empty lines and lines with a misplaced
\* colon (one after a step keyword, none after a section keyword) are
\* consumed; the keyword line found is left in place
RECURSIVE PeekKwLine(_, _)
PeekKwLine(toks, end) ==
    IF toks = <<>> THEN Fails("UnexpectedEof", "Line", toks, end)
    ELSE IF Head(toks).kind = "Comment" THEN Consumed(toks, PeekKwLine)
    ELSE IF Head(toks).kind # "Line"
    THEN Consumed(toks, LAMBDA t, e : Fails("Expected", "Line", t, e))
    ELSE With(parse_line(Head(toks).value), LAMBDA parsed :
            IF parsed.tag = "Err" THEN Fails(parsed.kind, "", toks, end)
            ELSE IF parsed.val = None THEN Consumed(toks, PeekKwLine)
            ELSE IF parsed.val[1].has_kw_colon =
                        (parsed.val[1].keyword \in
                            {"Feature", "Example", "Background",
                             "ScenarioOutline", "Examples"})
            THEN [tag |-> "Ok", line |-> parsed.val[1],
                  toks |-> toks, end |-> end]
            ELSE Consumed(toks, PeekKwLine))

\* Parser::peek_input: comments are consumed; a doc-string or a table is
\* left in place; any other token is consumed and refused
RECURSIVE PeekInput(_, _)
PeekInput(toks, end) ==
    IF toks = <<>> THEN Fails("UnexpectedEof", "StepInput", toks, end)
    ELSE IF Head(toks).kind = "Comment" THEN Consumed(toks, PeekInput)
    ELSE IF Head(toks).kind \in {"DataTable", "DocString"}
    THEN [tag |-> "Ok", toks |-> toks, end |-> end,
          input |-> [kind |-> Head(toks).kind, value |-> Head(toks).value]]
    ELSE Consumed(toks, LAMBDA t, e :
            Fails("Expected", "DocString, DataTable", t, e))

\* match self.peek_input(tokens).ok(): the prompt with the input peeked,
\* which is then consumed, or the bare prompt
PromptOf(prompt, toks, end) ==
    With(PeekInput(toks, end), LAMBDA got :
        IF got.tag = "Ok"
        THEN Consumed(got.toks, LAMBDA t, e :
                [prompt |-> [prompt |-> prompt, input |-> Some(got.input)],
                 toks |-> t, end |-> e])
        ELSE [prompt |-> [prompt |-> prompt, input |-> None],
              toks |-> got.toks, end |-> got.end])

\* parse_steps, the inner loop: the And and But lines after a step line
RECURSIVE AndsButs(_, _, _, _)
AndsButs(ands, buts, toks, end) ==
    With(PeekKwLine(toks, end), LAMBDA peeked :
        IF peeked.tag # "Ok"
        THEN [tag |-> "Ok", ands |-> ands, buts |-> buts,
              toks |-> peeked.toks, end |-> peeked.end]
        ELSE IF peeked.line.keyword \in {"And", "But"}
        THEN Consumed(peeked.toks, LAMBDA t, e :
                IF peeked.line.contents = None
                THEN Fails("InvalidBareKeyword", peeked.line.keyword, t, e)
                ELSE With(PromptOf(peeked.line.contents[1].text, t, e),
                          LAMBDA p :
                            IF peeked.line.keyword = "And"
                            THEN AndsButs(Append(ands, p.prompt), buts,
                                          p.toks, p.end)
                            ELSE AndsButs(ands, Append(buts, p.prompt),
                                          p.toks, p.end)))
        ELSE IF peeked.line.keyword = "Asterisk"
        THEN [tag |-> "Panic", msg |-> "Placeholder not supported yet",
              toks |-> peeked.toks, end |-> peeked.end]
        ELSE [tag |-> "Ok", ands |-> ands, buts |-> buts,
              toks |-> peeked.toks, end |-> peeked.end])

\* Parser::parse_steps, the outer loop: a Given, When or Then line, its
\* input, its And and But lines
RECURSIVE ParseSteps(_, _, _)
ParseSteps(steps, toks, end) ==
    With(PeekKwLine(toks, end), LAMBDA peeked :
        IF peeked.tag # "Ok"
        THEN [tag |-> "Ok", steps |-> steps,
              toks |-> peeked.toks, end |-> peeked.end]
        ELSE IF peeked.line.keyword = "Asterisk"
        THEN [tag |-> "Panic", msg |-> "Placeholder not supported yet",
              toks |-> peeked.toks, end |-> peeked.end]
        ELSE IF peeked.line.keyword \notin {"Given", "When", "Then"}
        THEN [tag |-> "Ok", steps |-> steps,
              toks |-> peeked.toks, end |-> peeked.end]
        ELSE Consumed(peeked.toks, LAMBDA t, e :
                IF peeked.line.contents = None
                THEN Fails("InvalidBareKeyword", peeked.line.keyword, t, e)
                ELSE With(PromptOf(peeked.line.contents[1].text, t, e),
                          LAMBDA p :
                     With(AndsButs(<<p.prompt>>, <<>>, p.toks, p.end),
                          LAMBDA rest :
                            IF rest.tag # "Ok" THEN rest
                            ELSE ParseSteps(
                                    Append(steps,
                                           [ty |-> peeked.line.keyword,
                                            ands |-> rest.ands,
                                            buts |-> rest.buts]),
                                    rest.toks, rest.end)))))

\* The prompts of the Given steps of a Background, step after step
RECURSIVE PromptsOf(_, _)
PromptsOf(steps, field) ==
    IF steps = <<>> THEN <<>>
    ELSE Head(steps)[field] \o PromptsOf(Tail(steps), field)

\* Parser::parse_background
parse_background(toks, end) ==
    With(PeekKwLine(toks, end), LAMBDA peeked :
        IF peeked.tag # "Ok" THEN peeked
        ELSE IF peeked.line.keyword # "Background"
        THEN [tag |-> "Ok", ands |-> <<>>, buts |-> <<>>,
              toks |-> peeked.toks, end |-> peeked.end]
        ELSE With(Consumed(peeked.toks, LAMBDA t, e : ParseSteps(<<>>, t, e)),
                  LAMBDA as_example :
                IF as_example.tag # "Ok" THEN as_example
                ELSE IF \E i \in 1..Len(as_example.steps) :
                            as_example.steps[i].ty # "Given"
                THEN Fails("InvalidBackgroundStep", "",
                           as_example.toks, as_example.end)
                ELSE [tag |-> "Ok",
                      ands |-> PromptsOf(as_example.steps, "ands"),
                      buts |-> PromptsOf(as_example.steps, "buts"),
                      toks |-> as_example.toks, end |-> as_example.end]))

\* Parser::parse, language_tags: filter_map over all the tokens, which
\* keeps the trimmed rest of a comment whose text up to its first `:` is
\* `language`
RECURSIVE LanguageTags(_)
LanguageTags(toks) ==
    IF toks = <<>> THEN <<>>
    ELSE IF /\ Head(toks).kind = "Comment"
            /\ Find(Head(toks).value, ":", 1) # 0
            /\ SubSeq(Head(toks).value, 1,
                      Find(Head(toks).value, ":", 1) - 1) = "language"
    THEN <<Trim(From(Head(toks).value, Find(Head(toks).value, ":", 1)))>>
            \o LanguageTags(Tail(toks))
    ELSE LanguageTags(Tail(toks))

\* The locals of Parser::parse before they are set (the language is set
\* with the header); freeform is the String parse_freeform_text collects
NoTokenFeature ==
    [language |-> "", name |-> None, freeform |-> "",
     freeform_text |-> None, background_and |-> <<>>,
     background_but |-> <<>>, contents |-> <<>>]

\* return, `?` on an Err, and a panic: parse_feature ends with r
ParserReturns(r) ==
    /\ result' = r
    /\ pc' = "done"
    /\ tokens' = r.toks
    /\ cur' = r.end
    /\ UNCHANGED feature

\* Parser::parse goes on at `to` with the locals set and the tokens left
ParserGoes(locals, toks, end, to) ==
    /\ feature' = locals
    /\ tokens' = toks
    /\ cur' = end
    /\ pc' = to
    /\ UNCHANGED result

\* Parser::parse up to the header as it would be without the test
\* `first_line.keyword != Keyword::Feature`: any keyword line is the header
ParseHeaderAnyKeyword ==
    /\ pc = "parse"
    /\ IF Len(LanguageTags(tokens)) > 1
       THEN ParserReturns(Fails("MultipleLanguageTags", "", tokens, cur))
       ELSE \E first_line \in {PeekKwLine(tokens, cur)} :
                IF first_line.tag # "Ok" THEN ParserReturns(first_line)
                ELSE Consumed(first_line.toks, LAMBDA t, e :
                        ParserGoes(
                            [NoTokenFeature EXCEPT
                                !.language =
                                    IF LanguageTags(tokens) = <<>>
                                    THEN "en"
                                    ELSE LanguageTags(tokens)[1],
                                !.name =
                                    IF first_line.line.contents = None
                                    THEN None
                                    ELSE Some(first_line.line.contents[1]
                                                .text)],
                            t, e, "freeform"))
    /\ UNCHANGED text
    /\ ExpanderUnchanged
    /\ ValuesUnchanged

\* Parser::parse up to the Feature header: the language tags, then
\* match_kw_line
ParseHeader ==
    /\ pc = "parse"
    /\ IF Len(LanguageTags(tokens)) > 1
       THEN ParserReturns(Fails("MultipleLanguageTags", "", tokens, cur))
       ELSE \E first_line \in {PeekKwLine(tokens, cur)} :
                IF first_line.tag # "Ok" THEN ParserReturns(first_line)
                ELSE Consumed(first_line.toks, LAMBDA t, e :
                        IF first_line.line.keyword # "Feature"
                        THEN ParserReturns(Fails("NotAFeature",
                                first_line.line.keyword, t, e))
                        ELSE ParserGoes(
                                [NoTokenFeature EXCEPT
                                    !.language =
                                        IF LanguageTags(tokens) = <<>>
                                        THEN "en"
                                        ELSE LanguageTags(tokens)[1],
                                    !.name =
                                        IF first_line.line.contents = None
                                        THEN None
                                        ELSE Some(first_line.line.contents[1]
                                                    .text)],
                                t, e, "freeform"))
    /\ UNCHANGED text
    /\ ExpanderUnchanged
    /\ ValuesUnchanged

\* parse_freeform_text after its loop: the trimmed text, None if empty
FreeformDone ==
    ParserGoes([feature EXCEPT
                   !.freeform_text =
                       IF Trim(feature.freeform) = "" THEN None
                       ELSE Some(Trim(feature.freeform))],
               tokens, cur, "background")

\* parse_freeform_text, the head of its loop: `while let Some(token) =
\* Self::peek_token(tokens)`
FreeformPeek ==
    /\ pc = "freeform"
    /\ IF tokens = <<>> THEN FreeformDone
       ELSE ParserGoes(feature, tokens, cur, "freeform_match")
    /\ UNCHANGED text
    /\ ExpanderUnchanged
    /\ ValuesUnchanged

\* parse_freeform_text, the body of its loop: `match token`.  A line
\* parse_line finds to be a Background, Example or ScenarioOutline line
\* leaves the loop, any other line is collected and consumed, a comment is
\* left where it is, a doc-string or table is refused
FreeformMatch ==
    /\ pc = "freeform_match"
    /\ IF Head(tokens).kind = "Line"
       THEN \E parsed \in {parse_line(Head(tokens).value)} :
               IF /\ parsed.tag = "Ok"
                  /\ parsed.val # None
                  /\ parsed.val[1].keyword \in
                        {"Background", "Example", "ScenarioOutline"}
               THEN FreeformDone
               ELSE Consumed(tokens, LAMBDA t, e :
                       ParserGoes([feature EXCEPT
                                      !.freeform =
                                          @ \o TrimStart(Head(tokens).value)
                                            \o "\n"],
                                  t, e, "freeform"))
       ELSE IF Head(tokens).kind = "Comment"
       THEN ParserGoes(feature, tokens, cur, "freeform")
       ELSE Consumed(tokens, LAMBDA t, e :
               ParserReturns(Fails("Expected", "freeform text", t, e)))
    /\ UNCHANGED text
    /\ ExpanderUnchanged
    /\ ValuesUnchanged

\* let (background_and, background_but) = self.parse_background(tokens)?
ParseBackground ==
    /\ pc = "background"
    /\ \E background \in {parse_background(tokens, cur)} :
          IF background.tag # "Ok" THEN ParserReturns(background)
          ELSE ParserGoes([feature EXCEPT
                              !.background_and = background.ands,
                              !.background_but = background.buts],
                          background.toks, background.end, "body")
    /\ UNCHANGED text
    /\ ExpanderUnchanged
    /\ ValuesUnchanged

\* One turn of the loop of Parser::parse: the keyword line of a block, the
\* block, which is pushed; when no token is left the loop ends and
\* Ok(Feature { .. }) is returned
BodyTurn ==
    /\ pc = "body"
    /\ \E peeked \in {PeekKwLine(tokens, cur)} :
          IF peeked.tag # "Ok" THEN ParserReturns(peeked)
          ELSE Consumed(peeked.toks, LAMBDA t, e :
                  IF peeked.line.keyword = "Example"
                  THEN \E parsed \in {ParseSteps(<<>>, t, e)} :
                          IF parsed.tag # "Ok" THEN ParserReturns(parsed)
                          ELSE \E locals \in
                                  {[feature EXCEPT !.contents = Append(@,
                                      [name |->
                                          IF peeked.line.contents = None
                                          THEN None
                                          ELSE Some(peeked.line.contents[1]
                                                      .text),
                                       steps |-> parsed.steps])]} :
                               IF parsed.toks = <<>>
                               THEN ParserReturns(
                                       [tag |-> "Ok",
                                        val |->
                                           [language |-> locals.language,
                                            name |-> locals.name,
                                            freeform_text |->
                                                locals.freeform_text,
                                            contents |-> locals.contents,
                                            background_and |->
                                                locals.background_and,
                                            background_but |->
                                                locals.background_but],
                                        toks |-> parsed.toks,
                                        end |-> parsed.end])
                               ELSE ParserGoes(locals, parsed.toks,
                                               parsed.end, "body")
                  ELSE IF peeked.line.keyword = "ScenarioOutline"
                  THEN ParserReturns(
                          [tag |-> "Panic",
                           msg |-> "Scenario outline not supported",
                           toks |-> t, end |-> e])
                  ELSE IF peeked.line.keyword = "Background"
                  THEN ParserReturns(Fails("Unexpected", "Background", t, e))
                  ELSE ParserReturns(Fails("Expected",
                          "Example, Scenario Outline", t, e)))
    /\ UNCHANGED text
    /\ ExpanderUnchanged
    /\ ValuesUnchanged

NextTokens ==
    \/ LexTurn
    \/ ParseHeader
    \/ FreeformPeek
    \/ FreeformMatch
    \/ ParseBackground
    \/ BodyTurn

-----------------------------------------------------------------------------
(* The texts lex and the token-based parse_feature are run on.             *)

MaxLexLines == 3
MaxPreamble == 2
MaxTokenSteps == 3

\* The texts: up to MaxLexLines of the lines the lexer tells apart
\* (doc-string delimiters with and without indent and trailing text, text,
\* table rows, a comment); up to MaxPreamble language comments and empty
\* lines, the header or what stands in its place, and what follows it; a
\* block header and up to MaxTokenSteps lines of a step block (steps, And
\* and But lines, inputs, a comment)
TokenTexts ==
    LET LexLines ==
            { TripleQuote, "  " \o TripleQuote, TripleQuote \o " x", "text",
              "  text", "| a | b |", "| c |", "# c" }
        PreambleLines == { "#language: gb", "# language: gb", "" }
        StepTokenLines ==
            { "Given g", "When w", "Then t", "And a", "But b:", "| a |",
              TripleQuote, "# c" }
    IN  SeqUpTo(LexLines, MaxLexLines)
        \cup {pre \o head \o rest :
                pre \in SeqUpTo(PreambleLines, MaxPreamble),
                head \in { <<>>, <<"Feature: a">>, <<"Example: e">> },
                rest \in { <<>>, <<"Example: e">>, <<"# c", "Example: e">>,
                           <<"Example: e", "#language: fr">>,
                           <<"free text", "Scenario Outline: o">> }}
        \cup {head \o steps :
                head \in { <<"Feature:", "Example:">>,
                           <<"Feature: a", "Background:">> },
                steps \in SeqUpTo(StepTokenLines, MaxTokenSteps)}

\* parse_feature(text) entered: Lexer { text, current_line: 0 }
InitTokens ==
    /\ text \in TokenTexts
    /\ tokens = <<>>
    /\ pc = "lex"
    /\ cur = 0
    /\ feature = NoTokenFeature
    /\ result = Running
    /\ ExpanderIdle
    /\ ValuesIdle

SpecTokens == InitTokens /\ [][NextTokens]_vars

\* parse_feature runs on: a thread that is not blocked takes its next step
SpecTokensLive == SpecTokens /\ WF_vars(NextTokens)

-----------------------------------------------------------------------------
(* Properties of lex and of the token-based parse_feature.                 *)

\* C22: parsing terminates on every finite input: lex followed by the
\* token-based parse returns after finitely many steps, every turn of every
\* loop consuming a line or a token or leaving the loop; also with comments
\* between the Feature header and the first section, and with doc-strings
\* that are not closed.
C22_ParsingTerminates == <>(pc = "done")

\* parse_freeform_text stands at a comment, which its loop does not consume
AtFreeformComment ==
    /\ pc \in {"freeform", "freeform_match"}
    /\ tokens # <<>>
    /\ Head(tokens).kind = "Comment"

\* The part of C22 that holds for lex and the token-based parse: it returns
\* or panics, unless parse_freeform_text comes to stand at a comment
C22_TerminatesUnlessComment == <>(pc = "done" \/ AtFreeformComment)

\* lex has returned Ok(tokens) and the parser has not consumed a token yet
LexSucceeded == pc = "parse"

\* C23: when lex succeeds the line spans of its tokens tile the input: the
\* first token starts at line 0, every token has start_line < end_line,
\* each token starts where the one before it ends, the last one ends at the
\* number of lines of the input, and a Line or Comment token is one line
\* wide.
C23_TokensTileInput ==
    LexSucceeded =>
        /\ tokens = <<>> => Len(text) = 0
        /\ tokens # <<>> =>
              /\ tokens[1].start_line = 0
              /\ tokens[Len(tokens)].end_line = Len(text)
        /\ \A i \in 1..Len(tokens) :
              /\ tokens[i].start_line < tokens[i].end_line
              /\ i > 1 => tokens[i].start_line = tokens[i - 1].end_line
              /\ tokens[i].kind \in {"Line", "Comment"} =>
                    tokens[i].end_line = tokens[i].start_line + 1

\* C23's case: a doc-string of two lines followed by a table
C23_Witness ==
    /\ LexSucceeded
    /\ Len(text) = 3
    /\ Len(tokens) = 2
    /\ tokens[1].kind = "DocString"
    /\ tokens[1].end_line = 2
    /\ tokens[2].kind = "DataTable"
    /\ tokens[2].start_line = 2


\* The first line opens a doc-string and lex has not failed on it: the first
\* token lexed is still the first of `tokens`
FirstOpensDocString ==
    /\ Len(text) > 0
    /\ StartsWith(TrimStart(text[1]), TripleQuote)
    /\ pc \in {"lex", "parse"}
    /\ tokens # <<>>

\* The lines from..to less the indent, each with its line feed
RECURSIVE ContentLines(_, _, _)
ContentLines(from, to, indent) ==
    IF from > to THEN ""
    ELSE From(text[from], Len(indent)) \o "\n"
            \o ContentLines(from + 1, to, indent)

\* The doc-string token that the first line opens and the line `closing`
\* closes: its span and its content
DocStringUpTo(closing) ==
    /\ tokens[1].kind = "DocString"
    /\ tokens[1].start_line = 0
    /\ tokens[1].end_line = closing
    /\ tokens[1].value =
          ContentLines(2, closing - 1, LeadingWhitespace(text[1]))

\* lex failed on the doc-string the first line opens, at the line `at`
FirstDocStringFails(kind, at) ==
    /\ Len(text) > 0
    /\ StartsWith(TrimStart(text[1]), TripleQuote)
    /\ pc = "done"
    /\ result.tag = "Err"
    /\ result.kind = "Lex"
    /\ result.what = kind
    /\ result.line_num = at
    /\ tokens = <<>>

\* C24: a doc-string opened by a line whose trimmed content starts with
\* `"""` is closed only by a later line whose trimmed content equals `"""`;
\* every line before that, one that starts with `"""` followed by other
\* text included, is appended to the content less the opening indent, and
\* a content line without the opening indent fails with
\* StringInconsistentIndent.
C24_ClosedByBareDelimiter ==
    /\ FirstOpensDocString =>
          /\ Trim(text[tokens[1].end_line]) = TripleQuote
          /\ \A j \in 2..(tokens[1].end_line - 1) :
                /\ Trim(text[j]) # TripleQuote
                /\ StartsWith(text[j], LeadingWhitespace(text[1]))
          /\ DocStringUpTo(tokens[1].end_line)
    /\ \A at \in 2..Len(text) :
          FirstDocStringFails("StringInconsistentIndent", at) =>
              /\ ~StartsWith(text[at], LeadingWhitespace(text[1]))
              /\ \A j \in 2..at : Trim(text[j]) # TripleQuote

\* The part of C24 that holds: the doc-string is closed by the first later
\* line whose trimmed content starts with `"""`; the lines before it are
\* appended less the opening indent, and the first one without that indent
\* fails with StringInconsistentIndent
C24_ClosedByFirstDelimiterLine ==
    /\ FirstOpensDocString =>
          /\ StartsWith(Trim(text[tokens[1].end_line]), TripleQuote)
          /\ \A j \in 2..(tokens[1].end_line - 1) :
                /\ ~StartsWith(Trim(text[j]), TripleQuote)
                /\ StartsWith(text[j], LeadingWhitespace(text[1]))
          /\ DocStringUpTo(tokens[1].end_line)
    /\ \A at \in 2..Len(text) :
          FirstDocStringFails("StringInconsistentIndent", at) =>
              /\ ~StartsWith(text[at], LeadingWhitespace(text[1]))
              /\ \A j \in 2..at : ~StartsWith(Trim(text[j]), TripleQuote)

\* The line at which the doc-string lex is reading was opened: the one after
\* the last token pushed
OpeningLine == IF tokens = <<>> THEN 0 ELSE tokens[Len(tokens)].end_line

\* lex failed with UnclosedDocString
UnclosedDocString ==
    /\ pc = "done"
    /\ result.tag = "Err"
    /\ result.kind = "Lex"
    /\ result.what = "UnclosedDocString"

\* C25: lex on a doc-string that is opened and never closed fails with
\* UnclosedDocString, and the line number of the error is that of the
\* opening `"""` line, counted from 0 as the tokens' lines are or from 1,
\* not the end of the input.
C25_UnclosedReportsOpeningLine ==
    UnclosedDocString =>
        /\ StartsWith(TrimStart(text[OpeningLine + 1]), TripleQuote)
        /\ result.line_num \in {OpeningLine, OpeningLine + 1}

\* The part of C25 that holds: the doc-string that is never closed fails
\* with UnclosedDocString, whose line number is the number of lines of the
\* input
C25_UnclosedReportsEndOfInput ==
    /\ UnclosedDocString =>
          /\ StartsWith(TrimStart(text[OpeningLine + 1]), TripleQuote)
          /\ \A j \in (OpeningLine + 2)..Len(text) :
                ~StartsWith(Trim(text[j]), TripleQuote)
          /\ result.line_num = Len(text)
    /\ (/\ FirstDocStringFails(result.what, result.line_num)
        /\ \A j \in 2..Len(text) :
              /\ ~StartsWith(Trim(text[j]), TripleQuote)
              /\ StartsWith(text[j], LeadingWhitespace(text[1])))
          => result.what = "UnclosedDocString"

\* C29: every DataTable token lex produces satisfies the data-table
\* invariant, each row having as many cells as the header: a table with a
\* row of another length is not returned; and the table ends at the first
\* line whose trimmed content does not start with `|`.
C29_LexTablesHaveFullRows ==
    pc \in {"lex", "parse"} =>
        \A i \in 1..Len(tokens) :
            tokens[i].kind = "DataTable" =>
                /\ \A r \in 1..Len(tokens[i].value.rows) :
                      Len(tokens[i].value.rows[r]) =
                          Len(tokens[i].value.header)
                /\ \A j \in (tokens[i].start_line + 1)..tokens[i].end_line :
                      StartsWith(TrimStart(text[j]), "|")
                /\ tokens[i].end_line < Len(text) =>
                      ~StartsWith(TrimStart(text[tokens[i].end_line + 1]),
                                  "|")

\* The part of C29 that holds: a table token spans the lines that start
\* with `|` up to the first that does not, its header is the cells of the
\* first and its rows are the cells of the others, whatever their number
C29_LexTablesSpanBarLines ==
    pc \in {"lex", "parse"} =>
        \A i \in 1..Len(tokens) :
            tokens[i].kind = "DataTable" =>
                /\ tokens[i].value.header =
                      TableRowIter(text[tokens[i].start_line + 1])
                /\ Len(tokens[i].value.rows) =
                      tokens[i].end_line - tokens[i].start_line - 1
                /\ \A r \in 1..Len(tokens[i].value.rows) :
                      tokens[i].value.rows[r] =
                          TableRowIter(text[tokens[i].start_line + 1 + r])
                /\ \A j \in (tokens[i].start_line + 1)..tokens[i].end_line :
                      StartsWith(TrimStart(text[j]), "|")
                /\ tokens[i].end_line < Len(text) =>
                      ~StartsWith(TrimStart(text[tokens[i].end_line + 1]),
                                  "|")


\* The language codes of the comment lines of a text that read
\* `#language: <code>`, in file order; with `spaced` also those with
\* whitespace between `#` and `language`
RECURSIVE LanguageComments(_, _)
LanguageComments(lines, spaced) ==
    IF lines = <<>> THEN <<>>
    ELSE With(Trim(Head(lines)), LAMBDA trimmed :
         With(IF spaced THEN TrimStart(From(trimmed, 1))
              ELSE From(trimmed, 1), LAMBDA comment :
            IF StartsWith(trimmed, "#") /\ StartsWith(comment, "language:")
            THEN <<Trim(From(comment, Len("language:")))>>
                    \o LanguageComments(Tail(lines), spaced)
            ELSE LanguageComments(Tail(lines), spaced)))

\* parse_feature has returned, and the lexer had no error
ParsedAfterLex ==
    /\ pc = "done"
    /\ ~ (result.tag = "Err" /\ result.kind = "Lex")

\* What C26 says of parse_feature for the language comments `codes`
LanguageSetFrom(codes) ==
    /\ Len(codes) > 1 =>
          result.tag = "Err" /\ result.kind = "MultipleLanguageTags"
    /\ (Len(codes) = 1 /\ result.tag = "Ok") =>
          result.val.language = codes[1]
    /\ (Len(codes) = 0 /\ result.tag = "Ok") => result.val.language = "en"

\* C26: parse_feature sets Feature.language to the code of the one comment
\* `# language: <code>` of the input, with or without a space after `#`,
\* to "en" when there is none, and fails with MultipleLanguageTags when
\* there is more than one.
C26_LanguageFromComment ==
    ParsedAfterLex => LanguageSetFrom(LanguageComments(text, TRUE))

\* The part of C26 that holds: the same for the comments that read
\* `#language: <code>` with nothing between `#` and `language`; any other
\* comment is no language tag
C26_LanguageFromUnspacedComment ==
    ParsedAfterLex => LanguageSetFrom(LanguageComments(text, FALSE))


\* A line the parser passes over in search of a keyword line: a comment or
\* an empty line
BlankOrComment(line) == Trim(line) = "" \/ StartsWith(Trim(line), "#")

\* The text holds no line but comments and empty lines
OnlyBlankAndComments ==
    \A i \in 1..Len(text) : BlankOrComment(text[i])

\* The first line of the text that is neither a comment nor empty is a
\* keyword line with its colon in place, of a keyword other than Feature
FirstKeywordIsOther ==
    \E i \in 1..Len(text) :
        /\ \A j \in 1..(i - 1) : BlankOrComment(text[j])
        /\ ~ BlankOrComment(text[i])
        /\ PeekKwLine(<<Token("Line", Trim(text[i]), i - 1, i)>>, 0).tag = "Ok"
        /\ PeekKwLine(<<Token("Line", Trim(text[i]), i - 1, i)>>, 0)
              .line.keyword # "Feature"

\* parse_feature has failed with an error of this kind
FailedWith(kind) == result.tag = "Err" /\ result.kind = kind

KwLineOf(line) == parse_line(Trim(line)).val[1]

\* A step line with a prompt and no input: a Given, When, Then, And or But
\* line with text after its keyword
PlainStepLine(line) ==
    /\ parse_line(Trim(line)).tag = "Ok"
    /\ parse_line(Trim(line)).val # None
    /\ KwLineOf(line).keyword \in {"Given", "When", "Then", "And", "But"}
    /\ ~ KwLineOf(line).has_kw_colon
    /\ KwLineOf(line).contents # None

\* The text is `Feature:`, `Example:` and plain step lines, the first of
\* them a Given, When or Then line
PlainStepBlock ==
    /\ Len(text) > 2
    /\ text[1] = "Feature:"
    /\ text[2] = "Example:"
    /\ \A i \in 3..Len(text) : PlainStepLine(text[i])
    /\ KwLineOf(text[3]).keyword \in {"Given", "When", "Then"}

\* The steps plain step lines stand for: a step for each Given, When or
\* Then line, every And line after it in its ands, every But line in its
\* buts
RECURSIVE StepsOfLines(_, _)
StepsOfLines(lines, steps) ==
    IF lines = <<>> THEN steps
    ELSE With([prompt |-> KwLineOf(Head(lines)).contents[1].text,
               input |-> None], LAMBDA p :
            IF KwLineOf(Head(lines)).keyword = "And"
            THEN StepsOfLines(Tail(lines),
                    [steps EXCEPT ![Len(steps)].ands = Append(@, p)])
            ELSE IF KwLineOf(Head(lines)).keyword = "But"
            THEN StepsOfLines(Tail(lines),
                    [steps EXCEPT ![Len(steps)].buts = Append(@, p)])
            ELSE StepsOfLines(Tail(lines),
                    Append(steps, [ty |-> KwLineOf(Head(lines)).keyword,
                                   ands |-> <<p>>, buts |-> <<>>])))

\* The first, third, fifth .. of the lines
EveryOther(lines) ==
    [i \in 1..((Len(lines) + 1) \div 2) |-> lines[2 * i - 1]]

\* parse_feature has returned the one Example with these steps
ParsedExampleOf(steps) ==
    /\ result.tag = "Ok"
    /\ result.val.contents = <<[name |-> None, steps |-> steps]>>

\* C28: parse_feature turns the step lines of an Example into steps and
\* loses no line: each Given, When or Then line is a step, in file order,
\* with the And lines after it in its ands and the But lines in its buts;
\* looking for a step's input consumes no step line, so the lines Given,
\* When, Then without inputs parse into three steps.
C28_EveryStepLineAStep ==
    (pc = "done" /\ PlainStepBlock) =>
        ParsedExampleOf(StepsOfLines(From(text, 2), <<>>))

\* What parse_feature does with plain step lines: the line after each step,
\* And or But line that is read is consumed in the search of an input, and
\* the steps are those of the first, third, fifth .. line
C28_EverySecondLineLost ==
    (pc = "done" /\ PlainStepBlock) =>
        ParsedExampleOf(StepsOfLines(EveryOther(From(text, 2)), <<>>))


-----------------------------------------------------------------------------
(* The order of the columns of an example block.                           *)

\* The orders the n columns of a block can be put in
ColumnOrders(n) ==
    {f \in [1..n -> 1..n] : \A i, j \in 1..n : f[i] = f[j] => i = j}

\* The scenario of a row after the placeholders of its block and its cells
\* are put in the order f
ScenarioInOrder(s, row, f) ==
    ScenarioOfRow(outline0,
                  [s EXCEPT !.placeholders =
                               [i \in 1..Len(row) |-> s.placeholders[f[i]]]],
                  [i \in 1..Len(row) |-> row[f[i]]])

\* The k-th scenario yielded is that of its row in every order of the
\* columns
SameInEveryOrder(k) ==
    \A f \in ColumnOrders(Len(RowAt(k))) :
        ScenarioInOrder(BlockAt(k), RowAt(k), f) = yielded[k]

\* No two columns of the block have the same name
DistinctPlaceholders(s) ==
    \A i, j \in 1..Len(s.placeholders) :
        s.placeholders[i] = s.placeholders[j] => i = j

\* C30, as stated: the expansion of a row does not depend on the order of
\* the columns of its block, whatever the cells hold.
C30_AnyRowOrderIndependent ==
    \A k \in 1..Len(yielded) : SameInEveryOrder(k)

\* C30, amended: the expansion of a row does not depend on the order of the
\* columns of its block when the columns have distinct names, neither the
\* cells nor the names hold a `<` or a `>`, and these occur in the template
\* only as the ends of markers.
C30_PlainRowOrderIndependent ==
    \A k \in 1..Len(yielded) :
        (DistinctPlaceholders(BlockAt(k)) /\ PlainRow(BlockAt(k), RowAt(k)))
            => SameInEveryOrder(k)

\* C30's case: a row of two columns with different cells is expanded, and
\* both cells are in the step
C30_Witness ==
    /\ Len(yielded) = 1
    /\ BlockAt(1).placeholders = <<"b", "a">>
    /\ RowAt(1) = <<"", "hihi">>
    /\ PlainRow(BlockAt(1), RowAt(1))
    /\ outline0.steps[1].description = "<a><b> is <a> <c>"
    /\ yielded[1].steps[1].description = "hihi is hihi <c>"

=============================================================================
